---- MODULE Spec2Model ----
(***************************************************************************)
(* Model of the pre-commit secret scanner of vibe-code-security-hook.      *)
(*                                                                         *)
(* The repository ships four implementations of the same pipeline:         *)
(*   "strict"   src/check-security.sh lines    1-459                        *)
(*   "strict2"  src/check-security.sh lines  460-907                        *)
(*   "lenient"  src/check-security.sh lines  908-1189                       *)
(*   "js"       src/scripts/check-security.js                               *)
(* One run of one implementation is one behaviour of Spec.  Text (paths,   *)
(* patterns) is a sequence of one-character strings; the text answered by  *)
(* the inference service is a sequence of lines of lexical tokens.         *)
(***************************************************************************)
EXTENDS Integers, Sequences, FiniteSets, TLC

(***************************************************************************)
(* Bounds                                                                  *)
(***************************************************************************)
\* at most this many paths are staged in one run
MaxStaged == 3

(***************************************************************************)
(* Text helpers                                                            *)
(***************************************************************************)
Range(s) == { s[i] : i \in 1..Len(s) }

\* tr '[:upper:]' '[:lower:]' / String.prototype.toLowerCase, one character
LowerChar(c) ==
  CASE c = "M" -> "m"
    [] c = "D" -> "d"
    [] c = "N" -> "n"
    [] c = "B" -> "b"
    [] OTHER -> c

toLowerCase(s) == [i \in 1..Len(s) |-> LowerChar(s[i])]

\* s contains t as a contiguous substring (bash == *"t"*, String.includes)
includes(s, t) ==
  \E i \in 1..(Len(s) - Len(t) + 1) : SubSeq(s, i, i + Len(t) - 1) = t

\* String.endsWith / bash == *"t"
endsWith(s, t) ==
  Len(s) >= Len(t) /\ SubSeq(s, Len(s) - Len(t) + 1, Len(s)) = t

\* the characters of s with every copy of character c replaced by text r
\* (sed 's/c/r/g', String.replace(/c/g, r))
RECURSIVE ReplaceAll(_, _, _)
ReplaceAll(s, c, r) ==
  IF s = <<>> THEN <<>>
  ELSE (IF Head(s) = c THEN r ELSE <<Head(s)>>) \o ReplaceAll(Tail(s), c, r)

\* shell word splitting of one line on blanks (IFS), empty words dropped
RECURSIVE SplitWords(_, _)
SplitWords(s, cur) ==
  IF s = <<>> THEN (IF cur = <<>> THEN <<>> ELSE <<cur>>)
  ELSE IF Head(s) = " "
       THEN (IF cur = <<>> THEN <<>> ELSE <<cur>>) \o SplitWords(Tail(s), <<>>)
       ELSE SplitWords(Tail(s), Append(cur, Head(s)))

\* "${arr[*]}" : the elements joined by single blanks
RECURSIVE JoinBlank(_)
JoinBlank(arr) ==
  IF arr = <<>> THEN <<>>
  ELSE IF Len(arr) = 1 THEN arr[1]
  ELSE arr[1] \o <<" ">> \o JoinBlank(Tail(arr))

(***************************************************************************)
(* File filter                                                             *)
(***************************************************************************)
\* pattern.replace(/\./g, '\\.').replace(/\*/g, '.*')
\* echo "$pattern" | sed 's/\./\\./g' | sed 's/\*/\.\*/g'
regexPattern(pattern) ==
  ReplaceAll(ReplaceAll(pattern, ".", <<"\\", ".">>), "*", <<".", "*">>)

\* The regular-expression engine on the converted pattern: an atom is an
\* escaped character, the wildcard "." or a literal; the character after an
\* atom may quantify it: "*" any number, "+" one or more, "?" at most one.
\* ci = TRUE compares letters without regard to case (RegExp flag 'i').
RECURSIVE ReMatchAt(_, _, _, _, _)
ReMatchAt(re, k, s, i, ci) ==
  IF k > Len(re) THEN TRUE
  ELSE LET esc     == re[k] = "\\" /\ k < Len(re)
           alen    == IF esc THEN 2 ELSE 1
           lit     == IF esc THEN re[k + 1] ELSE re[k]
           AtomOk(c) == IF ~esc /\ re[k] = "." THEN TRUE
                        ELSE IF ci THEN LowerChar(c) = LowerChar(lit)
                        ELSE c = lit
           quant   == IF k + alen <= Len(re) /\ re[k + alen] \in {"*", "+", "?"}
                      THEN re[k + alen] ELSE ""
           least   == IF quant = "+" THEN i + 1 ELSE i
           most    == IF quant = "?" THEN i + 1 ELSE Len(s) + 1
       IN IF quant # ""
          THEN \E j \in least..most :
                 /\ j <= Len(s) + 1
                 /\ \A m \in i..(j - 1) : AtomOk(s[m])
                 /\ ReMatchAt(re, k + alen + 1, s, j, ci)
          ELSE /\ i <= Len(s)
               /\ AtomOk(s[i])
               /\ ReMatchAt(re, k + alen, s, i + 1, ci)

\* regex.test(s) / [[ "$s" =~ $re ]] : an unanchored search
ReTest(re, s, ci) == \E i \in 1..(Len(s) + 1) : ReMatchAt(re, 1, s, i, ci)

\* index of the first pattern of the list that matches the path, 0 if none
FirstMatch(file_path, patterns, ci) ==
  LET hits == { k \in 1..Len(patterns) :
                  ReTest(regexPattern(patterns[k]), toLowerCase(file_path), ci) }
  IN IF hits = {} THEN 0 ELSE CHOOSE k \in hits : \A h \in hits : k <= h

\* should_exclude_file of the two strict scripts: patterns only
should_exclude_file(file_path, patterns) ==
  FirstMatch(file_path, patterns, FALSE) # 0

\* the "legacy" documentation test shared by the lenient script and the
\* Node script
LegacyExcluded(file_path) ==
  \/ includes(toLowerCase(file_path), <<"r", "e", "a", "d", "m", "e">>)
  \/ endsWith(file_path, <<".", "m", "d">>)
  \/ endsWith(file_path, <<".", "t", "x", "t">>)
  \/ includes(file_path, <<"d", "o", "c">>)

\* should_exclude_file of the lenient script: patterns, then legacy rules
should_exclude_file_lenient(file_path, patterns) ==
  FirstMatch(file_path, patterns, FALSE) # 0 \/ LegacyExcluded(file_path)

\* shouldExcludeFile of the Node script: case-insensitive patterns, then
\* legacy rules
shouldExcludeFile(file_path, patterns) ==
  FirstMatch(file_path, patterns, TRUE) # 0 \/ LegacyExcluded(file_path)

(***************************************************************************)
(* JSON as handled by jq and JSON.parse                                    *)
(*                                                                         *)
(* A JSON text is a sequence of tokens: the punctuation "{" "}" "[" "]"    *)
(* ",", the literals "true" "false" "null", a key token ending in ":"      *)
(* that must be followed by a value ("hsd:" is "hasSensitiveData":,        *)
(* "issues:" is "issues":), and member tokens that stand for a key with    *)
(* its string value ("line=L" is "line": "L").  Any other token ("prose",  *)
(* "kw", "hsd", "fence", "json") is not JSON.                                *)
(***************************************************************************)
JNull    == [t |-> "null", v |-> <<>>]
JBool(b) == [t |-> "bool", v |-> b]
JStr(s)  == [t |-> "str", v |-> s]
JArr(e)  == [t |-> "arr", v |-> e]
JObj(m)  == [t |-> "obj", v |-> m]

\* the key and the string value of a member token
MemberOf(tok) ==
  CASE tok = "line=L"     -> <<"line", "L">>
    [] tok = "line=D"     -> <<"line", "Found sensitive data">>
    [] tok = "line=NA"    -> <<"line", "N/A">>
    [] tok = "line=U"     -> <<"line", "Unknown line">>
    [] tok = "type=T"     -> <<"type", "T">>
    [] tok = "type=D"     -> <<"type", "Unknown">>
    [] tok = "type=API"   -> <<"type", "OllamaAPIError">>
    [] tok = "type=PARSE" -> <<"type", "OllamaParsingError">>
    [] tok = "type=P"     -> <<"type", "Possible sensitive data">>
    [] tok = "sugg=S"     -> <<"suggestion", "S">>
    [] tok = "sugg=D"     -> <<"suggestion", "Review manually">>
    [] tok = "sugg=E"     -> <<"suggestion", "error text">>
    [] tok = "path=X"     -> <<"filePath", <<"X">>>>
    [] tok = "line=aws"   -> <<"line", "aws">>
    [] tok = "line=pem"   -> <<"line", "pem">>
    [] tok = "line=cred"  -> <<"line", "cred">>
    [] tok = "type=AWS"   -> <<"type", "AWS Access Key">>
    [] tok = "type=PEM"   -> <<"type", "Private key">>
    [] tok = "type=CRED"  -> <<"type", "Hardcoded credential">>
    [] tok = "sugg=F"     -> <<"suggestion", "Move sensitive data to a .env file">>
    [] tok = "foo=1"      -> <<"foo", "1">>
    [] tok = "error=E"    -> <<"error", "E">>
    [] OTHER              -> <<>>

KeyOf(tok) ==
  CASE tok = "hsd:"      -> "hasSensitiveData"
    [] tok = "issues:"   -> "issues"
    [] tok = "response:" -> "response"
    [] OTHER             -> ""

PFail == [ok |-> FALSE, val |-> JNull, rest |-> <<>>]
POk(v, r) == [ok |-> TRUE, val |-> v, rest |-> r]

\* m with key k (re)bound to v: a later member overrides an earlier one
Put(m, k, v) == [x \in (DOMAIN m) \cup {k} |-> IF x = k THEN v ELSE m[x]]

RECURSIVE ParseValue(_), ParseMember(_), MembersAfter(_, _),
          ParseMembers(_, _, _), ElemsAfter(_, _), ParseElems(_, _, _)
ParseValue(toks) ==
  IF toks = <<>> THEN PFail
  ELSE CASE Head(toks) = "null"  -> POk(JNull, Tail(toks))
         [] Head(toks) = "true"  -> POk(JBool(TRUE), Tail(toks))
         [] Head(toks) = "false" -> POk(JBool(FALSE), Tail(toks))
         [] Head(toks) = "{"     -> ParseMembers(Tail(toks), <<>>, TRUE)
         [] Head(toks) = "["     -> ParseElems(Tail(toks), <<>>, TRUE)
         [] OTHER                -> PFail

\* the parse pv of a value, as the member with key k
Keyed(k, pv) == [ok |-> pv.ok, key |-> k, val |-> pv.val, rest |-> pv.rest]

\* one member at the front of toks: a key token and its value, or a member
\* token
ParseMember(toks) ==
  IF KeyOf(Head(toks)) # ""
  THEN Keyed(KeyOf(Head(toks)), ParseValue(Tail(toks)))
  ELSE IF MemberOf(Head(toks)) # <<>>
  THEN [ok |-> TRUE, key |-> MemberOf(Head(toks))[1],
        val |-> JStr(MemberOf(Head(toks))[2]), rest |-> Tail(toks)]
  ELSE [ok |-> FALSE, key |-> "", val |-> JNull, rest |-> <<>>]

\* what follows the member m: "}" closes the object, "," announces another
\* member
MembersAfter(m, acc) ==
  IF ~m.ok \/ m.rest = <<>> THEN PFail
  ELSE IF Head(m.rest) = "}"
       THEN POk(JObj(Put(acc, m.key, m.val)), Tail(m.rest))
  ELSE IF Head(m.rest) = ","
       THEN ParseMembers(Tail(m.rest), Put(acc, m.key, m.val), FALSE)
  ELSE PFail

\* after "{": members separated by ",", closed by "}"
ParseMembers(toks, acc, first) ==
  IF toks = <<>> THEN PFail
  ELSE IF first /\ Head(toks) = "}" THEN POk(JObj(acc), Tail(toks))
  ELSE MembersAfter(ParseMember(toks), acc)

\* what follows the element parsed as pv: "]" closes the array, ","
\* announces another element
ElemsAfter(pv, acc) ==
  IF ~pv.ok \/ pv.rest = <<>> THEN PFail
  ELSE IF Head(pv.rest) = "]"
       THEN POk(JArr(Append(acc, pv.val)), Tail(pv.rest))
  ELSE IF Head(pv.rest) = ","
       THEN ParseElems(Tail(pv.rest), Append(acc, pv.val), FALSE)
  ELSE PFail

\* after "[": values separated by ",", closed by "]"
ParseElems(toks, acc, first) ==
  IF toks = <<>> THEN PFail
  ELSE IF first /\ Head(toks) = "]" THEN POk(JArr(acc), Tail(toks))
  ELSE ElemsAfter(ParseValue(toks), acc)

\* the parse pv taken as a whole text: nothing may follow the value
WholeText(pv) ==
  IF pv.ok /\ pv.rest = <<>> THEN [ok |-> TRUE, val |-> pv.val]
  ELSE [ok |-> FALSE, val |-> JNull]

\* JSON.parse(text): exactly one value, anything else throws
JSONparse(toks) == WholeText(ParseValue(toks))

\* jq reads a stream of values; ok is FALSE when the input is not JSON
RECURSIVE JqStream(_, _), JqNext(_, _)
JqNext(pv, acc) ==
  IF ~pv.ok THEN [ok |-> FALSE, vals |-> acc]
  ELSE JqStream(pv.rest, Append(acc, pv.val))

JqStream(toks, acc) ==
  IF toks = <<>> THEN [ok |-> TRUE, vals |-> acc]
  ELSE JqNext(ParseValue(toks), acc)

\* a member of an object value, JNull when absent or not an object (jq .key)
Get(val, key) ==
  IF val.t = "obj" /\ key \in DOMAIN val.v THEN val.v[key] ELSE JNull
Has(val, key) == val.t = "obj" /\ key \in DOMAIN val.v

\* the lines of a text as one token sequence
RECURSIVE Flatten(_)
Flatten(lines) ==
  IF lines = <<>> THEN <<>> ELSE Head(lines) \o Flatten(Tail(lines))

(***************************************************************************)
(* The inference service                                                   *)
(***************************************************************************)
IssueObj == <<"{", "line=L", ",", "type=T", ",", "sugg=S", "}">>
IssueObj2 == <<"{", "line=aws", ",", "type=AWS", ",", "sugg=F", "}">>

\* response texts the model may produce, as lines of tokens
T_clean     == << <<"{", "hsd:", "false", "}">> >>
T_issue     == << <<"{", "hsd:", "true", ",", "issues:", "[">> \o IssueObj
                  \o <<"]", "}">> >>
T_issue2    == << <<"{">>, <<"hsd:", "true", ",">>,
                  <<"issues:", "[">> \o IssueObj \o <<",">> \o IssueObj,
                  <<",">> \o IssueObj2 \o <<"]">>,
                  <<"}">> >>
T_trueEmpty == << <<"{", "hsd:", "true", ",", "issues:", "[", "]", "}">> >>
T_trueOnly  == << <<"{", "hsd:", "true", "}">> >>
T_null      == << <<"null">> >>
T_other     == << <<"{", "foo=1", "}">> >>
T_prose     == << <<"prose">> >>
T_kw        == << <<"prose", "kw">> >>
T_braces    == << <<"prose", "{", "prose", "}">> >>
T_fenced    == << <<"prose">>, <<"fence", "json">>, <<"{", "hsd:", "false", "}">>,
                  <<"fence">> >>
T_issuePath == << <<"{", "hsd:", "true", ",", "issues:", "[", "{", "line=L", ",",
                    "path=X", "}", "]", "}">> >>
T_falseIssues == << <<"{", "hsd:", "false", ",", "issues:", "[">> \o IssueObj
                    \o <<"]", "}">> >>

\* prose and, on the same line, an object with one issue: the line member
\* first, or last in the issue object
T_proseIssue == << <<"prose", "{", "hsd:", "true", ",", "issues:", "[">>
                   \o IssueObj \o <<"]", "}">> >>
T_lineLast  == << <<"prose", "{", "hsd:", "true", ",", "issues:", "[", "{",
                    "type=T", ",", "sugg=S", ",", "line=L", "}", "]", "}">> >>

Texts == { T_clean, T_issue, T_issue2, T_trueEmpty, T_trueOnly, T_null,
           T_other, T_prose, T_kw, T_braces, T_fenced, T_falseIssues,
           T_issuePath, T_proseIssue, T_lineLast }

\* what one generation call can come back with:
\*   connfail   no connection (curl exit status # 0, fetch rejects)
\*   http_json  a non-success status with the JSON error object of the service
\*   http_text  a non-success status with a plain HTTP 4xx text body
\*   ok         a success status with a body whose response field is text
Outcomes ==
  { [kind |-> k, text |-> <<>>] : k \in {"connfail", "http_json", "http_text"} }
  \cup { [kind |-> "ok", text |-> t] : t \in Texts }

\* echo "$response" | grep -q "HTTP.*4[0-9][0-9]"
BodyHasHttp4xx(o) == o.kind = "http_text"

\* echo "$response" | jq -r '.response' : the text, "null" when the body is
\* an object without the field, nothing when the body is not JSON
ResponseField(o) ==
  CASE o.kind = "ok"        -> o.text
    [] o.kind = "http_json" -> << <<"null">> >>
    [] OTHER                -> <<>>

\* a token that spells hasSensitiveData / one of the indicator words
IsHsdTok(tok) == tok \in {"hsd:", "hsd"}
IsKeywordTok(tok) == tok \in {"kw", "hsd:", "hsd"}

\* grep -q "hasSensitiveData.*lit" : on one line, the name and later lit
HsdThen(lines, lit) ==
  \E n \in 1..Len(lines) : \E i, j \in 1..Len(lines[n]) :
     i < j /\ IsHsdTok(lines[n][i]) /\ lines[n][j] = lit

\* grep -q "^{" : some line starts with an opening brace
StartsWithBrace(lines) ==
  \E n \in 1..Len(lines) : lines[n] # <<>> /\ lines[n][1] = "{"

\* jq -e . : the text is JSON and its last value is neither false nor null
JqExit(st) ==
  /\ st.ok
  /\ st.vals # <<>>
  /\ ~(st.vals[Len(st.vals)].t = "null")
  /\ ~(st.vals[Len(st.vals)].t = "bool" /\ st.vals[Len(st.vals)].v = FALSE)

JqE(toks) == JqExit(JqStream(toks, <<>>))

\* index of the first position >= from of the line holding a token of set S
\* (0 if none)
FirstTok(line, from, S) ==
  LET hits == { i \in from..Len(line) : line[i] \in S }
  IN IF hits = {} THEN 0 ELSE CHOOSE i \in hits : \A h \in hits : i <= h

\* grep -o -z -P of a fence, an optional json tag, \K.*? and a lookahead for
\* the next fence: the dot does not cross a line
\* end, so only two fences on one line delimit a match
RECURSIVE FenceSameLine(_)
FenceSameLine(lines) ==
  IF lines = <<>> THEN <<>>
  ELSE LET l  == Head(lines)
           f1 == FirstTok(l, 1, {"fence"})
           f2 == IF f1 = 0 THEN 0 ELSE FirstTok(l, f1 + 1, {"fence"})
           b  == IF f2 # 0 /\ f1 + 1 < f2 /\ l[f1 + 1] = "json"
                 THEN f1 + 2 ELSE f1 + 1
       IN (IF f2 = 0 THEN <<>> ELSE SubSeq(l, b, f2 - 1))
          \o FenceSameLine(Tail(lines))

\* grep -o -E '\{[^{]*"hasSensitiveData"[^}]*\}' on every line
RECURSIVE BraceHsdMatch(_)
BraceHsdMatch(lines) ==
  IF lines = <<>> THEN <<>>
  ELSE LET l == Head(lines)
           starts == { i \in 1..Len(l) :
                        /\ l[i] = "{"
                        /\ \E h \in (i + 1)..Len(l) :
                             /\ l[h] = "hsd:"
                             /\ \A m \in (i + 1)..(h - 1) : l[m] # "{"
                             /\ FirstTok(l, h + 1, {"}"}) # 0 }
           i0 == CHOOSE i \in starts : \A x \in starts : i <= x
           h0 == FirstTok(l, i0 + 1, {"hsd:"})
       IN (IF starts = {} THEN <<>>
           ELSE SubSeq(l, i0, FirstTok(l, h0 + 1, {"}"})))
          \o BraceHsdMatch(Tail(lines))

\* grep -o -m 1 '"key":[^,]*' | head -1 : the member and what follows it on
\* its line up to a token of set stop
FieldSnip(lines, keyToks, stop) ==
  LET hits == { n \in 1..Len(lines) : FirstTok(lines[n], 1, keyToks) # 0 }
      n0 == CHOOSE n \in hits : \A x \in hits : n <= x
      a  == FirstTok(lines[n0], 1, keyToks)
      e  == FirstTok(lines[n0], a + 1, stop)
  IN IF hits = {} THEN <<>>
     ELSE SubSeq(lines[n0], a, IF e = 0 THEN Len(lines[n0]) ELSE e - 1)

OrElse(x, d) == IF x = <<>> THEN d ELSE x

\* the tokens that spell a member with the key "line", "type", "suggestion"
LineToks == {"line=L", "line=D", "line=NA", "line=U", "line=aws", "line=pem",
             "line=cred"}
TypeToks == {"type=T", "type=D", "type=API", "type=PARSE", "type=P", "type=AWS",
             "type=PEM", "type=CRED"}
SuggToks == {"sugg=S", "sugg=D", "sugg=E", "sugg=F"}

\* the JSON the last-resort heuristic prints
HeuristicJson(lines) ==
  <<"{", "hsd:", "true", ",", "issues:", "[", "{">>
  \o OrElse(FieldSnip(lines, LineToks, {","}), <<"line=D">>) \o <<",">>
  \o OrElse(FieldSnip(lines, TypeToks, {","}), <<"type=D">>) \o <<",">>
  \o OrElse(FieldSnip(lines, SuggToks, {",", "}"}), <<"sugg=D">>)
  \o <<"}", "]", "}">>

ApiErrorJson ==
  <<"{", "hsd:", "true", ",", "issues:", "[", "{", "type=API", ",", "line=NA",
    ",", "sugg=E", "}", "]", "}">>
ParsingErrorJson ==
  <<"{", "hsd:", "true", ",", "issues:", "[", "{", "type=PARSE", ",",
    "line=NA", ",", "sugg=E", "}", "]", "}">>
CleanJson == <<"{", "hsd:", "false", "}">>
PossibleJson ==
  <<"{", "hsd:", "true", ",", "issues:", "[", "{", "line=U", ",", "type=P",
    ",", "sugg=E", "}", "]", "}">>

\* the tail of check_with_ollama shared by both strict scripts: the
\* heuristic scan and the final error JSON
HeuristicOrError(r) ==
  IF HsdThen(r, "true") THEN HeuristicJson(r)
  ELSE IF HsdThen(r, "false") THEN CleanJson
  ELSE ParsingErrorJson

\* the first of the candidate texts that jq -e accepts, d when none does
RECURSIVE FirstJson(_, _)
FirstJson(cands, d) ==
  IF cands = <<>> THEN d
  ELSE IF JqE(Head(cands)) THEN Head(cands)
  ELSE FirstJson(Tail(cands), d)

\* the response field taken as JSON directly, when a line of it starts with "{"
DirectJson(r) == IF StartsWithBrace(r) THEN Flatten(r) ELSE <<>>

\* extracted_json: the content m1 of the code block (Method 1) when it is
\* not empty and jq accepts it, else the brace-delimited match around the
\* field name (Method 2)
extracted_json(m1, r) ==
  IF m1 = <<>> \/ ~JqE(m1) THEN BraceHsdMatch(r) ELSE m1

\* check_with_ollama of the first strict script: the text it prints for the
\* outcome o of its generation call
check_with_ollama(o) ==
  IF o.kind = "connfail" THEN ApiErrorJson
  ELSE IF BodyHasHttp4xx(o) THEN ApiErrorJson
  ELSE IF ResponseField(o) = <<>> THEN ParsingErrorJson
  ELSE FirstJson(<< DirectJson(ResponseField(o)),
                    extracted_json(FenceSameLine(ResponseField(o)),
                                   ResponseField(o)) >>,
                 HeuristicOrError(ResponseField(o)))

\* sed -n '/fence/,/fence/ { /fence/d; p; }' : the lines between a line
\* holding a fence and the next such line, the fence lines themselves deleted
RECURSIVE SedFence(_, _)
SedFence(lines, inRange) ==
  IF lines = <<>> THEN <<>>
  ELSE LET isF == "fence" \in Range(Head(lines))
       IN IF isF THEN SedFence(Tail(lines), ~inRange)
          ELSE (IF inRange THEN <<Head(lines)>> ELSE <<>>)
               \o SedFence(Tail(lines), inRange)

\* sed -n '/{/,/}/p' : from a line holding "{" to the next later line
\* holding "}"
RECURSIVE SedBrace(_, _)
SedBrace(lines, inRange) ==
  IF lines = <<>> THEN <<>>
  ELSE LET l == Head(lines)
       IN IF inRange
          THEN <<l>> \o SedBrace(Tail(lines), ~("}" \in Range(l)))
          ELSE IF "{" \in Range(l) THEN <<l>> \o SedBrace(Tail(lines), TRUE)
          ELSE SedBrace(Tail(lines), FALSE)

\* sed -e 's/^[^{]*//' -e 's/[^}]*$//' on one line of text
TrimToBraces(toks) ==
  LET a  == FirstTok(toks, 1, {"{"})
      t1 == IF a = 0 THEN <<>> ELSE SubSeq(toks, a, Len(toks))
      es == { i \in 1..Len(t1) : t1[i] = "}" }
  IN IF es = {} THEN <<>>
     ELSE SubSeq(t1, 1, CHOOSE i \in es : \A x \in es : x <= i)

\* Method 3 of the second strict script: from the first line that starts
\* with an opening brace
BraceBlock(lines) ==
  LET starts == { n \in 1..Len(lines) : lines[n] # <<>> /\ lines[n][1] = "{" }
      start_line == CHOOSE n \in starts : \A x \in starts : n <= x
  IN IF starts = {} THEN <<>>
     ELSE TrimToBraces(Flatten(SedBrace(SubSeq(lines, start_line, Len(lines)),
                                        FALSE)))

\* check_with_ollama of the second strict script
check_with_ollama_strict2(o) ==
  IF o.kind = "connfail" THEN ApiErrorJson
  ELSE IF BodyHasHttp4xx(o) THEN ApiErrorJson
  ELSE IF ResponseField(o) = <<>> THEN ParsingErrorJson
  ELSE FirstJson(<< DirectJson(ResponseField(o)),
                    extracted_json(Flatten(SedFence(ResponseField(o), FALSE)),
                                   ResponseField(o)),
                    BraceBlock(ResponseField(o)) >>,
                 HeuristicOrError(ResponseField(o)))

\* check_with_ollama of the lenient script: no exit-status check, the raw
\* body is searched for the field name and then for indicator words
check_with_ollama_lenient(o) ==
  IF o.kind = "ok" /\ \E tok \in Range(Flatten(o.text)) : IsHsdTok(tok)
  THEN Flatten(ResponseField(o))
  ELSE IF o.kind = "ok" /\ \E tok \in Range(Flatten(o.text)) : IsKeywordTok(tok)
  THEN PossibleJson
  ELSE CleanJson

(***************************************************************************)
(* Regex detectors                                                         *)
(*                                                                         *)
(* A file content is a sequence of lines; a line is named by what it       *)
(* holds: "plain" nothing, "aws" an AKIA access key id, "pem" a PEM        *)
(* private-key header, "cred" a quoted password assignment, "both" an      *)
(* api_key assignment whose value is an AKIA key id.                       *)
(***************************************************************************)
Detectors == <<"AWS", "PEM", "CRED">>

\* pattern.regex.test(line) of commonPatterns
RegexTest(detector, line) ==
  CASE detector = "AWS"  -> line \in {"aws", "both"}
    [] detector = "PEM"  -> line \in {"pem"}
    [] detector = "CRED" -> line \in {"cred", "both"}

\* echo "$content" | grep -q -E pattern, as the lenient script calls it: the
\* private-key pattern starts with dashes, grep takes it for an option and
\* fails, so that test is never true
GrepQ(detector, content) ==
  IF detector = "PEM" THEN FALSE
  ELSE \E n \in 1..Len(content) : RegexTest(detector, content[n])

TypeName(detector) ==
  CASE detector = "AWS"  -> "AWS Access Key"
    [] detector = "PEM"  -> "Private key"
    [] detector = "CRED" -> "Hardcoded credential"

FixedSuggestion == "Move sensitive data to a .env file"

\* lines.forEach(line => commonPatterns.forEach(...)) : one issue per line
\* and detector that matches, in line order then detector order
RECURSIVE RegexIssues(_)
RegexIssues(content) ==
  IF content = <<>> THEN <<>>
  ELSE LET line == Head(content)
           Hit(d) == IF RegexTest(d, line)
                     THEN << JObj([k \in {"line", "type", "suggestion"} |->
                                CASE k = "line" -> JStr(line)
                                  [] k = "type" -> JStr(TypeName(d))
                                  [] k = "suggestion" -> JStr(FixedSuggestion)]) >>
                     ELSE <<>>
       IN Hit("AWS") \o Hit("PEM") \o Hit("CRED") \o RegexIssues(Tail(content))

\* the catch branch of checkWithOllama
RegexFallback(content, filePath, patterns) ==
  IF shouldExcludeFile(filePath, patterns)
  THEN JObj([k \in {"hasSensitiveData", "issues"} |->
               IF k = "issues" THEN JArr(<<>>) ELSE JBool(FALSE)])
  ELSE LET issues == RegexIssues(content)
       IN JObj([k \in {"hasSensitiveData", "issues"} |->
                  IF k = "issues" THEN JArr(issues) ELSE JBool(issues # <<>>)])

\* first line of the content that a detector matches (grep | head -1)
FirstHit(detector, content) ==
  LET hits == { n \in 1..Len(content) : RegexTest(detector, content[n]) }
  IN content[CHOOSE n \in hits : \A x \in hits : n <= x]

LineTok(line) ==
  CASE line = "aws" -> "line=aws" [] line = "pem" -> "line=pem"
    [] line = "cred" -> "line=cred" [] OTHER -> "line=L"
TypeTok(detector) ==
  CASE detector = "AWS" -> "type=AWS" [] detector = "PEM" -> "type=PEM"
    [] detector = "CRED" -> "type=CRED"

\* check_with_regex of the lenient script: the text it prints; the skip
\* message of should_exclude_file ("diag") lands on the same stream
check_with_regex(content, file_path, patterns) ==
  IF should_exclude_file_lenient(file_path, patterns)
  THEN <<"diag", "{", "hsd:", "false", ",", "issues:", "[", "]", "}">>
  ELSE LET Obj(d) == <<"{", LineTok(FirstHit(d, content)), ",", TypeTok(d), ",",
                       "sugg=F", "}">>
           hit == [d \in {"AWS", "PEM", "CRED"} |-> GrepQ(d, content)]
           o1 == IF hit["AWS"] THEN Obj("AWS") ELSE <<>>
           o2 == IF hit["PEM"] THEN Obj("PEM") ELSE <<>>
           o3 == IF hit["CRED"] THEN Obj("CRED") ELSE <<>>
           Sep(a, b) == IF a # <<>> /\ b # <<>> THEN a \o <<",">> \o b
                        ELSE a \o b
           has_issues == hit["AWS"] \/ hit["PEM"] \/ hit["CRED"]
       IN <<"{", "hsd:", IF has_issues THEN "true" ELSE "false", ",",
            "issues:", "[">> \o Sep(Sep(o1, o2), o3) \o <<"]", "}">>

\* outcomes of the try block of checkWithOllama: control passes to the catch
\* branch, or the value v is returned
Thrown == [thrown |-> TRUE, val |-> JNull]
Ret(v) == [thrown |-> FALSE, val |-> v]

\* result = JSON.parse(text), with what happens when it throws
ParsedOr(p, otherwise) == IF p.ok THEN Ret(p.val) ELSE otherwise

\* data.response.match(/\{[\s\S]*\}/): from the first "{" to the last "}"
\* after it
jsonMatch(toks) ==
  LET a == FirstTok(toks, 1, {"{"})
      es == { i \in 1..Len(toks) : toks[i] = "}" /\ i > a }
  IN IF a = 0 \/ es = {} THEN <<>>
     ELSE SubSeq(toks, a, CHOOSE i \in es : \A x \in es : x <= i)

\* the parsing of the response text toks in the try block
ParseResponse(toks) ==
  ParsedOr(JSONparse(toks),
           IF jsonMatch(toks) # <<>>
           THEN ParsedOr(JSONparse(jsonMatch(toks)), Thrown)
           ELSE IF \E tok \in Range(toks) : IsKeywordTok(tok)
           THEN Ret(JSONparse(PossibleJson).val)
           ELSE Ret(JObj([k \in {"hasSensitiveData"} |-> JBool(FALSE)])))

\* the try block of checkWithOllama after a successful probe
OllamaTry(o) ==
  IF o.kind # "ok" \/ o.text = <<>> THEN Thrown
  ELSE ParseResponse(Flatten(o.text))

\* the end of checkWithOllama: the value of the try block, or the regex
\* fallback when it threw
Caught(t, content, filePath, patterns) ==
  IF t.thrown
  THEN [fellBack |-> TRUE, val |-> RegexFallback(content, filePath, patterns)]
  ELSE [fellBack |-> FALSE, val |-> t.val]

\* checkWithOllama(content, filePath): probe, generation call, parsing, and
\* the regex fallback whenever anything in the try block throws
checkWithOllama(content, filePath, up, o, patterns) ==
  Caught(IF up THEN OllamaTry(o) ELSE Thrown, content, filePath, patterns)

(***************************************************************************)
(* The repository under the hook                                           *)
(***************************************************************************)
P_ab == <<"a", " ", "b">>
P_b  == <<"b">>
P_k  == <<"k">>
P_md == <<"n", ".", "m", "d">>

\* the paths that can be staged, in the byte order git lists them in
AllPaths == <<P_ab, P_b, P_k, P_md>>

\* the staged blob of each path
ContentOf(path) ==
  CASE path = P_ab -> <<"plain">>
    [] path = P_b  -> <<"aws">>
    [] path = P_k  -> <<"plain", "pem">>
    [] path = P_md -> <<"cred">>
    [] OTHER       -> <<>>

\* ${#content}: the number of characters of the staged blob of each path
LengthOf(path) ==
  CASE path = P_ab -> 12
    [] path = P_b  -> 5000
    [] path = P_k  -> 5001
    [] path = P_md -> 20
    [] OTHER       -> 0

\* candidate contents of .security-exclude, line by line
ExcludeFiles == { <<>>, << <<"#", "c">>, <<>>, <<"*", ".", "m", "d">> >> }

\* the listing of a set of paths in git's order
Listing(S) == SelectSeq(AllPaths, LAMBDA p : p \in S)

\* git diff --staged --name-only | sort -u
SortU(list) == SelectSeq(AllPaths, LAMBDA p : p \in Range(list))

\* String.prototype.trim
RECURSIVE TrimLeft(_)
TrimLeft(s) == IF s # <<>> /\ Head(s) = " " THEN TrimLeft(Tail(s)) ELSE s
RECURSIVE TrimRight(_)
TrimRight(s) ==
  IF s # <<>> /\ s[Len(s)] = " " THEN TrimRight(SubSeq(s, 1, Len(s) - 1)) ELSE s
Trim(s) == TrimRight(TrimLeft(s))

\* load_exclusion_patterns: lines that are non-empty and whose first
\* non-blank character is not "#", kept as they are
load_exclusion_patterns(lines) ==
  SelectSeq(lines, LAMBDA line :
    line # <<>> /\ ~(TrimLeft(line) # <<>> /\ Head(TrimLeft(line)) = "#"))

\* loadExclusionPatterns: lines with something on them that do not start
\* with "#", trimmed
loadExclusionPatterns(lines) ==
  LET kept == SelectSeq(lines, LAMBDA line : Trim(line) # <<>> /\ Head(line) # "#")
  IN [n \in 1..Len(kept) |-> Trim(kept[n])]

(***************************************************************************)
(* State                                                                   *)
(***************************************************************************)
VARIABLES
  variant,            \* which implementation runs
  jqInstalled,        \* command -v jq succeeds
  ollamaUp,           \* the liveness probe of the inference endpoint succeeds
  excludeFile,        \* lines of .security-exclude
  staged,             \* git diff --staged --name-only
  readable,           \* paths whose staged blob git show can print
  pc,                 \* stage of the pipeline the run is at
  EXCLUSION_PATTERNS, \* the loaded pattern list
  stdoutDiag,         \* get_staged_changes wrote a skip message to its stdout
  stdoutBlank,        \* get_staged_changes printed an empty string, no array
  stagedFiles,        \* the {filePath, content} array handed to the loop
  i,                  \* loop index into stagedFiles (1-based)
  processed_paths,    \* paths the main loop of a strict script has handled
  ollama_available,   \* result of the probe in the lenient script
  hasIssues,          \* overall_has_issues_flag / has_issues / hasIssues
  allIssues,          \* the aggregate: TEMP_ISSUES_FILE / all_issues / allIssues
  exitCode,           \* process exit status, -1 while running
  crashed,            \* the process died of an uncaught exception
  log,                \* history: what the run has done so far, in order
  verdicts,           \* history: one entry per call of the classifier
  arg,                \* the arguments of a function applied on its own
  out                 \* what that function returned, <<>> before the call

env  == <<variant, jqInstalled, ollamaUp, excludeFile, staged, readable>>
vars == <<variant, jqInstalled, ollamaUp, excludeFile, staged, readable, pc,
          EXCLUSION_PATTERNS, stdoutDiag, stdoutBlank, stagedFiles, i,
          processed_paths, ollama_available, hasIssues, allIssues, exitCode, crashed, log,
          verdicts, arg, out>>

\* the variables used when one function of the program is applied on its
\* own; a run of the whole pipeline leaves them alone
harness == <<arg, out>>

Variants == {"strict", "strict2", "lenient", "js"}
IsStrict == variant \in {"strict", "strict2"}

Ev(e, path) == [ev |-> e, path |-> path]

Init ==
  /\ variant \in Variants
  /\ jqInstalled \in (IF variant = "js" THEN {TRUE} ELSE BOOLEAN)
  /\ ollamaUp \in BOOLEAN
  /\ excludeFile \in ExcludeFiles
  /\ \E S \in SUBSET Range(AllPaths) :
       /\ Cardinality(S) <= MaxStaged
       /\ staged = Listing(S)
       /\ readable \in SUBSET S
  /\ pc = IF variant \in {"strict", "strict2"} THEN "tool" ELSE "load"
  /\ EXCLUSION_PATTERNS = <<>>
  /\ stdoutDiag = FALSE
  /\ stdoutBlank = FALSE
  /\ stagedFiles = <<>>
  /\ i = 1
  /\ processed_paths = <<>>
  /\ ollama_available = FALSE
  /\ hasIssues = FALSE
  /\ allIssues = <<>>
  /\ exitCode = -1
  /\ crashed = FALSE
  /\ log = <<>>
  /\ verdicts = <<>>
  /\ arg = <<>>
  /\ out = <<>>

\* process.exit(code) / exit code
Exit(code) == /\ exitCode' = code
              /\ pc' = "done"

(***************************************************************************)
(* main, up to the enumeration                                             *)
(***************************************************************************)
\* main of the strict scripts: command -v jq
ToolCheck ==
  /\ pc = "tool"
  /\ IF jqInstalled
     THEN pc' = "load" /\ exitCode' = exitCode
     ELSE Exit(1)
  /\ UNCHANGED <<env, harness, EXCLUSION_PATTERNS, stdoutDiag, stdoutBlank, stagedFiles, i,
                 processed_paths, ollama_available, hasIssues, allIssues,
                 crashed, log, verdicts>>

\* load_exclusion_patterns / const exclusionPatterns = loadExclusionPatterns()
LoadExclusions ==
  /\ pc = "load"
  /\ EXCLUSION_PATTERNS' = IF variant = "js" THEN loadExclusionPatterns(excludeFile)
                           ELSE load_exclusion_patterns(excludeFile)
  /\ log' = Append(log, Ev("load", <<>>))
  /\ pc' = IF IsStrict THEN "probe" ELSE "enumerate"
  /\ UNCHANGED <<env, harness, stdoutDiag, stdoutBlank, stagedFiles, i, processed_paths,
                 ollama_available, hasIssues, allIssues, exitCode, crashed,
                 verdicts>>

\* check_ollama_available with the exit of the strict scripts left out
check_ollama_available_NoExit ==
  /\ pc = "probe"
  /\ log' = Append(log, Ev("probe", <<>>))
  /\ ollama_available' = ollamaUp
  /\ pc' = IF IsStrict THEN "enumerate" ELSE "classify"
  /\ exitCode' = exitCode
  /\ UNCHANGED <<env, harness, EXCLUSION_PATTERNS, stdoutDiag, stdoutBlank, stagedFiles, i,
                 processed_paths, hasIssues, allIssues, crashed, verdicts>>

\* check_ollama_available as main calls it: the strict scripts stop the run
\* when it fails, the lenient script remembers the answer
check_ollama_available ==
  /\ pc = "probe"
  /\ log' = Append(log, Ev("probe", <<>>))
  /\ ollama_available' = ollamaUp
  /\ IF IsStrict
     THEN IF ollamaUp THEN pc' = "enumerate" /\ exitCode' = exitCode
          ELSE Exit(1)
     ELSE pc' = "classify" /\ exitCode' = exitCode
  /\ UNCHANGED <<env, harness, EXCLUSION_PATTERNS, stdoutDiag, stdoutBlank, stagedFiles, i,
                 processed_paths, hasIssues, allIssues, crashed, verdicts>>

(***************************************************************************)
(* Staged file enumerator                                                  *)
(***************************************************************************)
FileObj(path) == [filePath |-> path, content |-> ContentOf(path)]

\* [[ " ${processed[*]} " == *" $file "* ]]
AlreadyListed(processed, file) ==
  includes(<<" ">> \o JoinBlank(processed) \o <<" ">>,
           <<" ">> \o file \o <<" ">>)

NoFiles == [diag |-> FALSE, blank |-> FALSE, files |-> <<>>, reads |-> <<>>,
            processed |-> <<>>]

\* get_staged_changes of the first strict script, over the sorted listing:
\* what its stdout holds (a skip message, the array) and what it read
RECURSIVE get_staged_changes(_, _, _, _)
get_staged_changes(list, patterns, canRead, acc) ==
  IF list = <<>> THEN acc
  ELSE LET file == Head(list)
           next ==
             IF AlreadyListed(acc.processed, file) THEN acc
             ELSE IF should_exclude_file(file, patterns)
                  THEN [acc EXCEPT !.diag = TRUE]
             ELSE IF file \in canRead
                  THEN [acc EXCEPT !.files = Append(@, FileObj(file)),
                                   !.reads = Append(@, file),
                                   !.processed = Append(@, file)]
             ELSE [acc EXCEPT !.reads = Append(@, file)]
       IN get_staged_changes(Tail(list), patterns, canRead, next)

\* get_staged_changes of the second strict script: no de-duplication
RECURSIVE get_staged_changes_strict2(_, _, _, _)
get_staged_changes_strict2(list, patterns, canRead, acc) ==
  IF list = <<>> THEN acc
  ELSE LET file == Head(list)
           next ==
             IF should_exclude_file(file, patterns)
             THEN [acc EXCEPT !.diag = TRUE]
             ELSE IF file \in canRead
                  THEN [acc EXCEPT !.files = Append(@, FileObj(file)),
                                   !.reads = Append(@, file)]
             ELSE [acc EXCEPT !.reads = Append(@, file)]
       IN get_staged_changes_strict2(Tail(list), patterns, canRead, next)

\* for file in $staged_files : the listing split into words
RECURSIVE WordsOf(_)
WordsOf(list) ==
  IF list = <<>> THEN <<>>
  ELSE SplitWords(Head(list), <<>>) \o WordsOf(Tail(list))

\* get_staged_changes of the lenient script, over the words of the listing;
\* without jq the accumulated array text becomes the empty string
RECURSIVE get_staged_changes_lenient(_, _, _, _, _)
get_staged_changes_lenient(words, patterns, canRead, jq, acc) ==
  IF words = <<>> THEN acc
  ELSE LET file == Head(words)
           next ==
             IF should_exclude_file_lenient(file, patterns)
             THEN [acc EXCEPT !.diag = TRUE]
             ELSE IF file \in canRead
                  THEN [acc EXCEPT !.files = IF jq THEN Append(@, FileObj(file))
                                             ELSE <<>>,
                                   !.blank = ~jq,
                                   !.reads = Append(@, file)]
             ELSE [acc EXCEPT !.reads = Append(@, file)]
       IN get_staged_changes_lenient(Tail(words), patterns, canRead, jq, next)

\* execSync of "git show :file" : the shell splits the command at blanks
CanShowJs(file, canRead) == file \in canRead /\ ~(" " \in Range(file))

\* getStagedChanges without the exclusion test
RECURSIVE getStagedChanges_NoFilter(_, _, _, _)
getStagedChanges_NoFilter(list, patterns, canRead, acc) ==
  IF list = <<>> THEN acc
  ELSE LET file == Head(list)
           next ==
             IF CanShowJs(file, canRead)
             THEN [acc EXCEPT !.files = Append(@, FileObj(file)),
                              !.reads = Append(@, file)]
             ELSE [acc EXCEPT !.reads = Append(@, file)]
       IN getStagedChanges_NoFilter(Tail(list), patterns, canRead, next)

\* getStagedChanges of the Node script
RECURSIVE getStagedChanges(_, _, _, _)
getStagedChanges(list, patterns, canRead, acc) ==
  IF list = <<>> THEN acc
  ELSE LET file == Head(list)
           next ==
             IF shouldExcludeFile(file, patterns) THEN acc
             ELSE IF CanShowJs(file, canRead)
                  THEN [acc EXCEPT !.files = Append(@, FileObj(file)),
                                   !.reads = Append(@, file)]
             ELSE [acc EXCEPT !.reads = Append(@, file)]
       IN getStagedChanges(Tail(list), patterns, canRead, next)

Enumerated ==
  CASE variant = "strict" ->
         get_staged_changes(SortU(staged), EXCLUSION_PATTERNS, readable, NoFiles)
    [] variant = "strict2" ->
         get_staged_changes_strict2(staged, EXCLUSION_PATTERNS, readable, NoFiles)
    [] variant = "lenient" ->
         get_staged_changes_lenient(WordsOf(staged), EXCLUSION_PATTERNS,
                                    readable, jqInstalled, NoFiles)
    [] variant = "js" ->
         getStagedChanges(staged, EXCLUSION_PATTERNS, readable, NoFiles)

\* main: the call of get_staged_changes and what main does with its output
\*   strict scripts: exit 1 when the output is not JSON, exit 0 when the
\*                   array is empty
\*   lenient script: exit 0 when the output is exactly "[]"
\*   Node script:    exit 0 when the array is empty
GetStagedChanges ==
  /\ pc = "enumerate"
  /\ LET r == Enumerated
     IN /\ stdoutDiag' = r.diag
        /\ stdoutBlank' = r.blank
        /\ stagedFiles' = r.files
        /\ log' = log \o <<Ev("enumerate", <<>>)>>
                      \o [n \in 1..Len(r.reads) |-> Ev("read", r.reads[n])]
        /\ IF IsStrict /\ r.diag THEN Exit(1)
           ELSE IF IsStrict /\ r.files = <<>> THEN Exit(0)
           ELSE IF variant = "lenient" /\ ~r.diag /\ ~r.blank /\ r.files = <<>>
                THEN Exit(0)
           ELSE IF variant = "js" /\ r.files = <<>> THEN Exit(0)
           ELSE /\ pc' = IF variant = "lenient" THEN "probe" ELSE "classify"
                /\ exitCode' = exitCode
  /\ UNCHANGED <<env, harness, EXCLUSION_PATTERNS, i, processed_paths, ollama_available,
                 hasIssues, allIssues, crashed, verdicts>>

(***************************************************************************)
(* Classification loop and aggregation                                     *)
(***************************************************************************)
NoCall == [kind |-> "none", text |-> <<>>]

\* the value main reads the result of the classifier as: the first value of
\* the text a shell function printed, null when it printed no JSON
FirstValue(st) == IF st.vals = <<>> THEN JNull ELSE st.vals[1]

\* the result a strict script reads with jq ... || echo "false": a text jq
\* fails on is read as no value, whatever jq printed before it failed
ResultRead(st) == IF st.ok THEN FirstValue(st) ELSE JNull

\* local max_content_length=5000
max_content_length == 5000

\* content="${content:0:$max_content_length}" : the number of characters
\* left of a content of len characters
TruncatedLength(len) ==
  IF len > max_content_length THEN max_content_length ELSE len

\* the generation request of implementation v for a content of len
\* characters: how many characters of it the prompt embeds, and whether the
\* truncation warning is printed; sent = -1 when no request is made
GenerationRequest(v, len, called) ==
  [sent   |-> IF ~called THEN -1
              ELSE IF v \in {"strict", "strict2"} THEN TruncatedLength(len)
              ELSE len,
   warned |-> called /\ v = "strict" /\ len > max_content_length]

Verdict(path, o, via, flagged, issues, result, req) ==
  [path |-> path, o |-> o, via |-> via, flagged |-> flagged, issues |-> issues,
   result |-> result, sent |-> req.sent, warned |-> req.warned]

IsTrue(v) == v.t = "bool" /\ v.v = TRUE

\* the path can stand inside the double-quoted string of a jq program
JqLiteralOk(path) == ~("\"" \in Range(path)) /\ ~("\\" \in Range(path))

\* the values of a jq stream up to the first one on which .key fails
\* (.key is defined on objects and on null only)
RECURSIVE FieldOutputs(_, _)
FieldOutputs(vals, key) ==
  IF vals = <<>> \/ ~(Head(vals).t \in {"obj", "null"}) THEN <<>>
  ELSE <<Get(Head(vals), key)>> \o FieldOutputs(Tail(vals), key)

\* [ "$(echo "$result" | jq -r '.hasSensitiveData' || echo "false")" = "true" ]
\* st: the values jq read from the result; outs: what it printed;
\* orFalse: a failing jq appends the word false to what it printed
TrueOutput(st, outs, orFalse) ==
  /\ Len(outs) = 1
  /\ IsTrue(outs[1])
  /\ ~(orFalse /\ (~st.ok \/ Len(outs) < Len(st.vals)))

has_sensitive_data(st, orFalse) ==
  TrueOutput(st, FieldOutputs(st.vals, "hasSensitiveData"), orFalse)

\* issue + {"filePath": path}
Stamp(issue, path) == JObj(Put(issue.v, "filePath", JStr(path)))

\* jq -c '.issues[]?' of one value: the elements of an issues array
IssueElems(val) ==
  IF Get(val, "issues").t = "arr" THEN Get(val, "issues").v ELSE <<>>

\* the issues that process_single_file_and_log_issues appends to the
\* temporary issues file: the object elements, stamped with the path
RECURSIVE StampObjects(_, _)
StampObjects(elems, path) ==
  IF elems = <<>> THEN <<>>
  ELSE (IF Head(elems).t = "obj" /\ JqLiteralOk(path)
        THEN <<Stamp(Head(elems), path)>> ELSE <<>>)
       \o StampObjects(Tail(elems), path)

RECURSIVE AllIssueElems(_)
AllIssueElems(vals) ==
  IF vals = <<>> THEN <<>>
  ELSE IssueElems(Head(vals)) \o AllIssueElems(Tail(vals))

\* one round of the main loop of a strict script, with
\* process_single_file_and_log_issues inlined
process_single_file_and_log_issues ==
  /\ pc = "classify"
  /\ IsStrict
  /\ i <= Len(stagedFiles)
  /\ LET file_path == stagedFiles[i].filePath
     IN IF AlreadyListed(processed_paths, file_path)
        THEN UNCHANGED <<processed_paths, hasIssues, allIssues, log, verdicts>>
        ELSE \E o \in Outcomes :
          \E st \in { JqStream(IF variant = "strict" THEN check_with_ollama(o)
                               ELSE check_with_ollama_strict2(o), <<>>) } :
          \E flagged \in { has_sensitive_data(st, TRUE) } :
          \E found \in { IF flagged
                         THEN StampObjects(AllIssueElems(st.vals), file_path)
                         ELSE <<>> } :
             /\ processed_paths' = Append(processed_paths, file_path)
             /\ log' = Append(log, Ev("request", file_path))
             /\ hasIssues' = (hasIssues \/ flagged)
             /\ allIssues' = allIssues \o found
             /\ verdicts' = Append(verdicts,
                                   Verdict(file_path, o, "ollama", flagged, found,
                                     ResultRead(st),
                                     GenerationRequest(variant,
                                        LengthOf(file_path), TRUE)))
  /\ i' = i + 1
  /\ UNCHANGED <<env, harness, pc, EXCLUSION_PATTERNS, stdoutDiag, stdoutBlank,
                 stagedFiles, ollama_available, exitCode, crashed>>

\* $(echo "$staged_files" | jq '. | length') : empty when jq is missing or
\* the text is not JSON, and the loop then runs no round
num_files ==
  IF variant = "lenient"
  THEN (IF jqInstalled /\ ~stdoutDiag /\ ~stdoutBlank THEN Len(stagedFiles) ELSE 0)
  ELSE Len(stagedFiles)

\* issue + {"filePath": path} as the lenient loop computes it: a null issue
\* gives the bare path object, a failing jq gives an empty entry
RECURSIVE StampLenient(_, _)
StampLenient(elems, path) ==
  IF elems = <<>> THEN <<>>
  ELSE << IF ~JqLiteralOk(path) THEN JNull
          ELSE IF Head(elems).t = "obj" THEN Stamp(Head(elems), path)
          ELSE IF Head(elems).t = "null" THEN Stamp(JObj(<<>>), path)
          ELSE JNull >>
       \o StampLenient(Tail(elems), path)

\* one round of the main loop of the lenient script
main_loop_lenient ==
  /\ pc = "classify"
  /\ variant = "lenient"
  /\ i <= num_files
  /\ LET file_path == stagedFiles[i].filePath
         content == stagedFiles[i].content
     IN \E o \in (IF ollama_available THEN Outcomes ELSE {NoCall}) :
          \E st \in { JqStream(IF ollama_available
                               THEN check_with_ollama_lenient(o)
                               ELSE check_with_regex(content, file_path,
                                                     EXCLUSION_PATTERNS),
                               <<>>) } :
          \E flagged \in { has_sensitive_data(st, FALSE) } :
          \E found \in { IF flagged
                         THEN StampLenient(IssueElems(st.vals[1]), file_path)
                         ELSE <<>> } :
             /\ log' = Append(log, Ev(IF ollama_available THEN "request"
                                      ELSE "regex", file_path))
             /\ hasIssues' = (hasIssues \/ flagged)
             /\ allIssues' = allIssues \o found
             /\ verdicts' = Append(verdicts,
                  Verdict(file_path, o,
                          IF ollama_available THEN "ollama" ELSE "regex",
                          flagged, found, FirstValue(st),
                          GenerationRequest(variant, LengthOf(file_path),
                                            ollama_available)))
  /\ i' = i + 1
  /\ UNCHANGED <<env, harness, pc, EXCLUSION_PATTERNS, stdoutDiag, stdoutBlank,
                 stagedFiles, processed_paths, ollama_available, exitCode,
                 crashed>>

\* JavaScript truthiness of a value
Truthy(v) ==
  CASE v.t = "null" -> FALSE
    [] v.t = "bool" -> v.v
    [] v.t = "str"  -> v.v # ""
    [] OTHER        -> TRUE

\* the findings of one file pushed in reverse order
RECURSIVE SpreadIssues_Reversed(_, _)
SpreadIssues_Reversed(elems, path) ==
  IF elems = <<>> THEN <<>>
  ELSE SpreadIssues_Reversed(Tail(elems), path)
       \o << Stamp(IF Head(elems).t = "obj" THEN Head(elems) ELSE JObj(<<>>),
                   path) >>

\* { filePath: file.filePath, ...issue } : the members of the issue win
RECURSIVE SpreadIssues(_, _)
SpreadIssues(elems, path) ==
  IF elems = <<>> THEN <<>>
  ELSE << IF Head(elems).t = "obj"
          THEN JObj([k \in (DOMAIN Head(elems).v) \cup {"filePath"} |->
                       IF k \in DOMAIN Head(elems).v THEN Head(elems).v[k]
                       ELSE JStr(path)])
          ELSE Stamp(JObj(<<>>), path) >>
       \o SpreadIssues(Tail(elems), path)

\* one round of the loop of main in the Node script; reading a property of
\* null or calling forEach on something that is not an array throws, nothing
\* catches it, and the process dies with status 1
main_loop_js ==
  /\ pc = "classify"
  /\ variant = "js"
  /\ i <= Len(stagedFiles)
  /\ LET file_path == stagedFiles[i].filePath
         content == stagedFiles[i].content
     IN \E o \in (IF ollamaUp THEN Outcomes ELSE {NoCall}) :
          \E r \in { checkWithOllama(content, file_path, ollamaUp, o,
                                     EXCLUSION_PATTERNS) } :
          \E flagged \in { r.val.t # "null"
                           /\ Truthy(Get(r.val, "hasSensitiveData")) } :
          \E throws \in { \/ r.val.t = "null"
                          \/ flagged /\ Get(r.val, "issues").t # "arr" } :
          \E found \in { IF flagged /\ ~throws
                         THEN SpreadIssues(Get(r.val, "issues").v, file_path)
                         ELSE <<>> } :
             /\ log' = log \o <<Ev("probe", file_path)>>
                           \o (IF ollamaUp THEN <<Ev("request", file_path)>>
                               ELSE <<>>)
                           \o (IF r.fellBack THEN <<Ev("regex", file_path)>>
                               ELSE <<>>)
             /\ hasIssues' = (hasIssues \/ flagged)
             /\ allIssues' = allIssues \o found
             /\ verdicts' = Append(verdicts,
                  Verdict(file_path, o,
                          IF r.fellBack THEN "regex" ELSE "ollama",
                          flagged, found, r.val,
                          GenerationRequest(variant, LengthOf(file_path),
                                            ollamaUp)))
             /\ IF throws
                THEN crashed' = TRUE /\ Exit(1)
                ELSE UNCHANGED <<crashed, exitCode, pc>>
  /\ i' = i + 1
  /\ UNCHANGED <<env, harness, EXCLUSION_PATTERNS, stdoutDiag, stdoutBlank, stagedFiles,
                 processed_paths, ollama_available>>

(***************************************************************************)
(* Reporter / gate                                                         *)
(***************************************************************************)
\* the end of main with the exit status taken from the aggregate
Report_ExitOnAggregate ==
  /\ pc = "classify"
  /\ i > num_files
  /\ log' = Append(log, Ev("report", <<>>))
  /\ Exit(IF allIssues # <<>> THEN 1 ELSE 0)
  /\ UNCHANGED <<env, harness, EXCLUSION_PATTERNS, stdoutDiag, stdoutBlank, stagedFiles,
                 i, processed_paths, ollama_available, hasIssues, allIssues,
                 crashed, verdicts>>

\* the end of main: the report and the exit status
Report ==
  /\ pc = "classify"
  /\ i > num_files
  /\ log' = Append(log, Ev("report", <<>>))
  /\ Exit(IF hasIssues THEN 1 ELSE 0)
  /\ UNCHANGED <<env, harness, EXCLUSION_PATTERNS, stdoutDiag, stdoutBlank, stagedFiles,
                 i, processed_paths, ollama_available, hasIssues, allIssues,
                 crashed, verdicts>>

Next ==
  \/ ToolCheck
  \/ LoadExclusions
  \/ check_ollama_available
  \/ GetStagedChanges
  \/ process_single_file_and_log_issues
  \/ main_loop_lenient
  \/ main_loop_js
  \/ Report

Spec == Init /\ [][Next]_vars

(***************************************************************************)
(* The file filter applied on its own                                      *)
(***************************************************************************)
\* at most this many patterns in a pattern list handed to the filter
MaxPatterns == 2

\* the variables of a pipeline run, at rest while one function is applied
Idle ==
  /\ jqInstalled = TRUE
  /\ ollamaUp = TRUE
  /\ excludeFile = <<>>
  /\ staged = <<>>
  /\ readable = {}
  /\ EXCLUSION_PATTERNS = <<>>
  /\ stdoutDiag = FALSE
  /\ stdoutBlank = FALSE
  /\ stagedFiles = <<>>
  /\ i = 1
  /\ processed_paths = <<>>
  /\ ollama_available = FALSE
  /\ hasIssues = FALSE
  /\ allIssues = <<>>
  /\ exitCode = -1
  /\ crashed = FALSE
  /\ log = <<>>
  /\ verdicts = <<>>

\* paths and .security-exclude patterns the filter is tried on
FilterPaths ==
  { <<"n", ".", "m", "d">>, <<"N", ".", "M", "D">>, <<"n", "b", "m", "d">>,
    <<"b", "+", "d">>, <<"b", "b", "d">>, <<"b", "d">>, <<"b", "?", "d">>,
    <<"d">> }
FilterPatterns ==
  { <<"*", ".", "m", "d">>, <<"*", ".", "M", "D">>, <<"n", ".", "m", "d">>,
    <<"b", "+", "d">>, <<"b", "?", "d">>, <<"m", "d">>, <<"n", "*", "d">> }
PatternLists == UNION { [1..n -> FilterPatterns] : n \in 0..MaxPatterns }

\* the file filter of implementation v
shouldExclude(v, path, patterns) ==
  CASE v = "lenient" -> should_exclude_file_lenient(path, patterns)
    [] v = "js"      -> shouldExcludeFile(path, patterns)
    [] OTHER         -> should_exclude_file(path, patterns)

InitFilter ==
  /\ variant \in Variants
  /\ arg \in [path : FilterPaths, patterns : PatternLists]
  /\ out = <<>>
  /\ pc = "filter"
  /\ Idle

\* one call of the file filter
ApplyFilter ==
  /\ pc = "filter"
  /\ out' = [excluded |-> shouldExclude(variant, arg.path, arg.patterns)]
  /\ pc' = "filtered"
  /\ UNCHANGED <<env, arg, EXCLUSION_PATTERNS, stdoutDiag, stdoutBlank,
                 stagedFiles, i, processed_paths, ollama_available, hasIssues,
                 allIssues, exitCode, crashed, log, verdicts>>

NextFilter == ApplyFilter

SpecFilter == InitFilter /\ [][NextFilter]_vars

(***************************************************************************)
(* The response parsers as functions of the response text                  *)
(***************************************************************************)
MaxIssues == 2

\* the ScanResult objects the service may answer with: hasSensitiveData true
\* with up to MaxIssues findings, or false with no findings (the issues member
\* empty or left out); written on one line or pretty-printed
ScanResults ==
  { r \in [hsd : BOOLEAN, key : BOOLEAN, multiline : BOOLEAN,
           issues : UNION { [1..n -> {IssueObj, IssueObj2}] : n \in 0..MaxIssues }] :
      /\ r.hsd => r.key
      /\ ~r.hsd => r.issues = <<>> }

\* the issue objects separated by commas, on one line
RECURSIVE IssuesInline(_)
IssuesInline(issues) ==
  IF issues = <<>> THEN <<>>
  ELSE IF Len(issues) = 1 THEN Head(issues)
  ELSE Head(issues) \o <<",">> \o IssuesInline(Tail(issues))

\* the issue objects one per line, a comma after each but the last
RECURSIVE IssuesPerLine(_)
IssuesPerLine(issues) ==
  IF issues = <<>> THEN <<>>
  ELSE IF Len(issues) = 1 THEN << Head(issues) >>
  ELSE << Head(issues) \o <<",">> >> \o IssuesPerLine(Tail(issues))

\* the JSON text of a ScanResult, as lines of tokens
ScanResultText(r) ==
  LET b == IF r.hsd THEN "true" ELSE "false"
  IN IF r.multiline
     THEN << <<"{">>, <<"hsd:", b>> \o (IF r.key THEN <<",">> ELSE <<>>) >>
          \o (IF r.key
              THEN << <<"issues:", "[">> >> \o IssuesPerLine(r.issues)
                   \o << <<"]">> >>
              ELSE <<>>)
          \o << <<"}">> >>
     ELSE << <<"{", "hsd:", b>>
             \o (IF r.key
                 THEN <<",", "issues:", "[">> \o IssuesInline(r.issues) \o <<"]">>
                 ELSE <<>>)
             \o <<"}">> >>

\* how a response wraps the JSON text: the fence with or without the json
\* tag, on the lines of the text or on lines of its own, between prose that
\* holds an indicator word ("kw") or none ("prose")
Layouts == [tag : BOOLEAN, inline : BOOLEAN, prose : {"prose", "kw"}]

\* the response with the text inside a code fence and prose around it
FencedText(text, layout) ==
  LET open == <<"fence">> \o (IF layout.tag THEN <<"json">> ELSE <<>>)
      n == Len(text)
  IN IF layout.inline
     THEN [k \in 1..n |->
             (IF k = 1 THEN <<layout.prose>> \o open ELSE <<>>)
             \o text[k]
             \o (IF k = n THEN <<"fence", layout.prose>> ELSE <<>>)]
     ELSE << <<layout.prose>>, open >> \o text
          \o << <<"fence">>, <<layout.prose>> >>

\* what implementation v takes a successful response with the given text
\* for: the JSON value its parser yields (null when what its
\* check_with_ollama prints is not JSON), or thrown when the try block of
\* checkWithOllama throws
ParsedResult(v, text) ==
  LET o == [kind |-> "ok", text |-> text]
  IN CASE v = "strict"  -> Ret(FirstValue(JqStream(check_with_ollama(o), <<>>)))
       [] v = "strict2" ->
            Ret(FirstValue(JqStream(check_with_ollama_strict2(o), <<>>)))
       [] v = "lenient" ->
            Ret(FirstValue(JqStream(check_with_ollama_lenient(o), <<>>)))
       [] OTHER         -> OllamaTry(o)

InitParse ==
  /\ variant \in Variants
  /\ arg \in { [J |-> ScanResultText(r), layout |-> l] :
                r \in ScanResults, l \in Layouts }
  /\ out = <<>>
  /\ pc = "parse"
  /\ Idle

\* the parser applied to the bare text and to the fenced text
ApplyParse ==
  /\ pc = "parse"
  /\ \E b \in { ParsedResult(variant, arg.J) } :
     \E f \in { ParsedResult(variant, FencedText(arg.J, arg.layout)) } :
        out' = [bare |-> b, fenced |-> f]
  /\ pc' = "parsed"
  /\ UNCHANGED <<env, arg, EXCLUSION_PATTERNS, stdoutDiag, stdoutBlank,
                 stagedFiles, i, processed_paths, ollama_available, hasIssues,
                 allIssues, exitCode, crashed, log, verdicts>>

NextParse == ApplyParse

SpecParse == InitParse /\ [][NextParse]_vars

(***************************************************************************)
(* The installers                                                          *)
(*                                                                         *)
(* A hook file is a sequence of lines; a line is named by what it holds:   *)
(* "shebang" a line starting with #!/, "user" and "user2" commands of the  *)
(* hook the repository already had, "exit0" its final exit, "blank",       *)
(* "note" the comment naming vibe-code-security-hook, "npx_run" and        *)
(* "npx_run_bare" the npx invocation with and without || exit 1,           *)
(* "husky_sh" the line sourcing husky.sh, "run_note" .. "fi" the block of  *)
(* create_pre_commit_hook with "call_hook" its invocation, and             *)
(* "check_security_sh" the body of check-security.sh.                      *)
(***************************************************************************)
MaxInstalls == 2

NoFile == [exists |-> FALSE, lines |-> <<>>]
FileOf(lines) == [exists |-> TRUE, lines |-> lines]

\* existingContent.includes('vibe-security-hook run')
IncludesRun(lines) ==
  \E n \in 1..Len(lines) : lines[n] \in {"npx_run", "npx_run_bare"}

\* grep -q "vibe-code-security-hook" "$pre_commit_path"
GrepHookName(lines) ==
  \E n \in 1..Len(lines) : lines[n] \in {"note", "if_hook", "call_hook"}

\* hookCommand of installGitHook
hookCommand == <<"shebang", "note", "npx_run">>

\* installGitHook(targetDir): the pre-commit file it leaves, given the one
\* it finds and whether pre-commit.sample exists
installGitHook(preCommit, sample) ==
  LET found == IF sample.exists /\ ~preCommit.exists THEN sample ELSE preCommit
      existingContent == found.lines
  IN IF found.exists
     THEN IF IncludesRun(existingContent) THEN found
          ELSE IF existingContent = <<>> \/ existingContent[1] # "shebang"
          THEN FileOf(<<"shebang">> \o existingContent \o <<"blank">>
                      \o hookCommand)
          ELSE FileOf(existingContent \o <<"blank">> \o hookCommand)
     ELSE FileOf(hookCommand)

\* cp "$SCRIPT_DIR/check-security.sh" "$TARGET_REPO/.git/hooks/pre-commit"
install_hook_sh(preCommit) == FileOf(<<"shebang", "check_security_sh">>)

\* the lines sed inserts before line 2
HookBlock ==
  <<"run_note", "if_hook", "call_hook", "result", "if_result", "exit_result",
    "fi", "fi", "blank">>

\* create_pre_commit_hook: a new file when there is none, else the block
\* inserted before line 2 unless the hook name is found in the file; sed
\* inserts nothing into a file that has no second line
create_pre_commit_hook(preCommit) ==
  IF ~preCommit.exists
  THEN FileOf(<<"shebang", "blank", "run_note", "if_hook", "call_hook", "result",
                "if_result", "exit_result", "fi", "fi", "blank", "note2",
                "exit0">>)
  ELSE IF GrepHookName(preCommit.lines) THEN preCommit
  ELSE IF Len(preCommit.lines) >= 2
  THEN FileOf(<<preCommit.lines[1]>> \o HookBlock
              \o SubSeq(preCommit.lines, 2, Len(preCommit.lines)))
  ELSE preCommit

\* the .husky/pre-commit file that scripts/install.js and the husky method
\* of installHook leave
huskyHook(husky) ==
  IF husky.exists
  THEN IF IncludesRun(husky.lines) THEN husky
       ELSE FileOf(husky.lines \o <<"blank", "npx_run_bare">>)
  ELSE FileOf(<<"shebang", "husky_sh", "blank", "npx_run_bare">>)

\* installHook(targetDir): the files it leaves and the value it returns.
\* e says what the environment does: isGit (.git exists), hooksWritable
\* (installGitHook does not throw), scriptOk (the installer script ends with
\* status 0), huskyOk (no command of the husky method throws)
installHook(preCommit, husky, sample, e) ==
  IF ~e.isGit
  THEN [preCommit |-> preCommit, husky |-> husky, returned |-> "false"]
  ELSE LET direct == IF e.hooksWritable THEN installGitHook(preCommit, sample)
                     ELSE preCommit
       IN IF e.scriptOk
          THEN [preCommit |-> direct, husky |-> huskyHook(husky),
                returned |-> "true"]
          ELSE IF e.huskyOk
          THEN [preCommit |-> direct, husky |-> huskyHook(husky),
                returned |-> "true"]
          ELSE [preCommit |-> direct, husky |-> husky, returned |-> "true"]

\* the pre-commit hooks a repository may already have
InitialHooks ==
  { NoFile, FileOf(<<>>), FileOf(<<"user">>), FileOf(<<"user", "user2">>),
    FileOf(<<"shebang", "user">>), FileOf(<<"shebang", "user", "exit0">>) }

Installers ==
  {"installGitHook", "install-hook.sh", "create_pre_commit_hook", "installHook"}

InitInstall ==
  /\ variant \in {"js"}
  /\ arg \in [installer : Installers, initial : InitialHooks,
              sample : {NoFile, FileOf(<<"shebang", "user">>)},
              isGit : BOOLEAN, hooksWritable : BOOLEAN, scriptOk : BOOLEAN,
              huskyOk : BOOLEAN]
  /\ out = [preCommit |-> arg.initial, husky |-> NoFile, returned |-> "none",
            installs |-> 0]
  /\ pc = "install"
  /\ Idle

\* one call of the exported installGitHook
RunInstallGitHook ==
  /\ pc = "install"
  /\ arg.installer = "installGitHook"
  /\ arg.hooksWritable
  /\ out.installs < MaxInstalls
  /\ out' = [out EXCEPT !.preCommit = installGitHook(@, arg.sample),
                        !.returned = "true",
                        !.installs = @ + 1]
  /\ UNCHANGED <<env, arg, pc, EXCLUSION_PATTERNS, stdoutDiag, stdoutBlank,
                 stagedFiles, i, processed_paths, ollama_available, hasIssues,
                 allIssues, exitCode, crashed, log, verdicts>>

\* one run of install-hook.sh on the target repository
RunInstallHookSh ==
  /\ pc = "install"
  /\ arg.installer = "install-hook.sh"
  /\ out.installs < MaxInstalls
  /\ out' = [out EXCEPT !.preCommit = IF arg.isGit THEN install_hook_sh(@)
                                      ELSE @,
                        !.returned = IF arg.isGit THEN "true" ELSE "false",
                        !.installs = @ + 1]
  /\ UNCHANGED <<env, arg, pc, EXCLUSION_PATTERNS, stdoutDiag, stdoutBlank,
                 stagedFiles, i, processed_paths, ollama_available, hasIssues,
                 allIssues, exitCode, crashed, log, verdicts>>

\* one run of the installer that calls create_pre_commit_hook
RunCreatePreCommitHook ==
  /\ pc = "install"
  /\ arg.installer = "create_pre_commit_hook"
  /\ out.installs < MaxInstalls
  /\ out' = [out EXCEPT !.preCommit = IF arg.isGit
                                      THEN create_pre_commit_hook(@) ELSE @,
                        !.returned = IF arg.isGit THEN "true" ELSE "false",
                        !.installs = @ + 1]
  /\ UNCHANGED <<env, arg, pc, EXCLUSION_PATTERNS, stdoutDiag, stdoutBlank,
                 stagedFiles, i, processed_paths, ollama_available, hasIssues,
                 allIssues, exitCode, crashed, log, verdicts>>

\* one call of installHook
RunInstallHook ==
  /\ pc = "install"
  /\ arg.installer = "installHook"
  /\ out.installs < MaxInstalls
  /\ \E r \in { installHook(out.preCommit, out.husky, arg.sample, arg) } :
        out' = [preCommit |-> r.preCommit, husky |-> r.husky,
                returned |-> r.returned, installs |-> out.installs + 1]
  /\ UNCHANGED <<env, arg, pc, EXCLUSION_PATTERNS, stdoutDiag, stdoutBlank,
                 stagedFiles, i, processed_paths, ollama_available, hasIssues,
                 allIssues, exitCode, crashed, log, verdicts>>

NextInstall ==
  \/ RunInstallGitHook
  \/ RunInstallHookSh
  \/ RunCreatePreCommitHook
  \/ RunInstallHook

SpecInstall == InitInstall /\ [][NextInstall]_vars

(***************************************************************************)
(* The body of the generation request                                      *)
(*                                                                         *)
(* Paths and contents are sequences of characters: "a" an ordinary         *)
(* character, "q" a double quote, "b" a backslash, "nl" a line end; "n"    *)
(* is the letter n and "t" stands for a stretch of the fixed prompt text   *)
(* (ordinary characters and valid escapes).                                *)
(***************************************************************************)
MaxChars == 2

Chars == {"a", "q", "b", "nl"}
CharSeqs(lo) == UNION { [1..n -> Chars] : n \in lo..MaxChars }

\* sed 's/[\\]/\\\\/g' | sed 's/["]/\\"/g' : backslashes doubled, then a
\* backslash put before every double quote; line ends stay as they are
RECURSIVE safe_file_path(_)
safe_file_path(file_path) ==
  IF file_path = <<>> THEN <<>>
  ELSE (CASE Head(file_path) = "b" -> <<"b", "b">>
          [] Head(file_path) = "q" -> <<"b", "q">>
          [] OTHER                 -> <<Head(file_path)>>)
       \o safe_file_path(Tail(file_path))

\* JSON.stringify of a string, without the enclosing quotes
RECURSIVE JSONstringify(_)
JSONstringify(str) ==
  IF str = <<>> THEN <<>>
  ELSE (CASE Head(str) = "b"  -> <<"b", "b">>
          [] Head(str) = "q"  -> <<"b", "q">>
          [] Head(str) = "nl" -> <<"b", "n">>
          [] OTHER            -> <<Head(str)>>)
       \o JSONstringify(Tail(str))

\* the characters the request body of implementation v holds between the
\* quote that opens the prompt and the quote meant to close it
request_payload(v, file_path, content) ==
  CASE v \in {"strict", "strict2"} ->
         <<"t">> \o safe_file_path(file_path) \o <<"t">> \o content \o <<"t">>
    [] v = "lenient" ->
         <<"t", "nl", "t">> \o file_path \o <<"t", "nl">> \o content
         \o <<"nl", "t">>
    [] OTHER ->
         JSONstringify(<<"t">> \o file_path \o <<"t", "nl">> \o content
                       \o <<"nl", "t">>)

InitRequest ==
  /\ variant \in Variants
  /\ arg \in [path : CharSeqs(1), content : CharSeqs(0)]
  /\ out = <<>>
  /\ pc = "build"
  /\ Idle

\* the request body built for one file
BuildRequest ==
  /\ pc = "build"
  /\ out' = [literal |-> request_payload(variant, arg.path, arg.content)]
  /\ pc' = "built"
  /\ UNCHANGED <<env, arg, EXCLUSION_PATTERNS, stdoutDiag, stdoutBlank,
                 stagedFiles, i, processed_paths, ollama_available, hasIssues,
                 allIssues, exitCode, crashed, log, verdicts>>

NextRequest == BuildRequest

SpecRequest == InitRequest /\ [][NextRequest]_vars

(***************************************************************************)
(* The loader of the exclusion patterns over its search path               *)
(***************************************************************************)
MaxLines == 2

\* lines an exclusion file may hold
LoadLines ==
  { <<>>, <<"#", "c">>, <<" ", "#">>, <<"*", ".", "m", "d">>, <<"d", " ">> }

\* a file that does not exist, and a file with the given lines whose last
\* line ends with a line end or not
NoExcludeFile == [exists |-> FALSE, lines |-> <<>>, newline |-> TRUE]
ExcludeFileOf(lines, newline) ==
  [exists |-> TRUE, lines |-> lines, newline |-> newline]

\* the first existing file of $GIT_ROOT/.security-exclude,
\* $SCRIPT_DIR/.security-exclude, $SCRIPT_DIR/.security-exclude.sample
found_exclude_file(root, tool, sample) ==
  IF root.exists THEN [from |-> "root", file |-> root]
  ELSE IF tool.exists THEN [from |-> "tool", file |-> tool]
  ELSE IF sample.exists THEN [from |-> "sample", file |-> sample]
  ELSE [from |-> "none", file |-> NoExcludeFile]

\* the lines the read loop of implementation v goes through: the loop of
\* the lenient script ends at a last line without a line end, before its
\* body runs for that line
ReadLines(v, file) ==
  IF v = "lenient" /\ ~file.newline /\ file.lines # <<>>
  THEN SubSeq(file.lines, 1, Len(file.lines) - 1)
  ELSE file.lines

\* the patterns implementation v loads and the file it takes them from; the
\* Node script reads .security-exclude of the working directory only
LoadedPatterns(v, root, tool, sample) ==
  IF v = "js"
  THEN [from |-> IF root.exists THEN "root" ELSE "none",
        patterns |-> IF root.exists THEN loadExclusionPatterns(root.lines)
                     ELSE <<>>]
  ELSE [from |-> found_exclude_file(root, tool, sample).from,
        patterns |-> load_exclusion_patterns(
                        ReadLines(v, found_exclude_file(root, tool, sample).file))]

InitLoad ==
  /\ variant \in Variants
  /\ arg \in [root : {NoExcludeFile}
                     \cup { ExcludeFileOf(l, nl) :
                              l \in UNION { [1..n -> LoadLines] : n \in 0..MaxLines },
                              nl \in BOOLEAN },
              tool : {NoExcludeFile, ExcludeFileOf(<< <<"*", ".", "m", "d">> >>, TRUE)},
              sample : {NoExcludeFile, ExcludeFileOf(<< <<"#", "c">>, <<"d", " ">> >>, TRUE)}]
  /\ out = <<>>
  /\ pc = "loading"
  /\ Idle

\* one call of the loader
ApplyLoad ==
  /\ pc = "loading"
  /\ out' = LoadedPatterns(variant, arg.root, arg.tool, arg.sample)
  /\ pc' = "loaded"
  /\ UNCHANGED <<env, arg, EXCLUSION_PATTERNS, stdoutDiag, stdoutBlank,
                 stagedFiles, i, processed_paths, ollama_available, hasIssues,
                 allIssues, exitCode, crashed, log, verdicts>>

NextLoad == ApplyLoad

SpecLoad == InitLoad /\ [][NextLoad]_vars

(***************************************************************************)
(* The requests to the inference service over time                         *)
(*                                                                         *)
(* out.idx is the file the loop is at, out.inFlight the requests sent and  *)
(* not yet answered (the file they were sent for and their kind: "tags"    *)
(* the liveness probe, "generate" the generation call), out.obtained the   *)
(* number of files whose result the loop has, out.up whether the probe of  *)
(* a shell script succeeded, out.late the number of probes answered after  *)
(* their timer fired.  A shell script waits for curl; the Node script      *)
(* awaits its fetch calls, the probe in a race with a timer.               *)
(***************************************************************************)
MaxFiles == 3

Request(file, kind) == [file |-> file, kind |-> kind]

InitRequests ==
  /\ variant \in Variants
  /\ arg \in [files : 1..MaxFiles]
  /\ out = [idx |-> 1, inFlight |-> {}, obtained |-> 0, up |-> FALSE,
            late |-> 0]
  /\ pc = IF variant = "js" THEN "loop" ELSE "start"
  /\ Idle

\* check_ollama_available: curl --max-time 1 of /api/tags is started
Probe ==
  /\ pc = "start"
  /\ out' = [out EXCEPT !.inFlight = @ \cup {Request(0, "tags")}]
  /\ pc' = "probing"
  /\ UNCHANGED <<env, arg, EXCLUSION_PATTERNS, stdoutDiag, stdoutBlank,
                 stagedFiles, i, processed_paths, ollama_available, hasIssues,
                 allIssues, exitCode, crashed, log, verdicts>>

\* curl ends, with an answer or without one; a strict script exits when
\* the probe failed
ProbeDone ==
  /\ pc = "probing"
  /\ variant # "js"
  /\ \E ok \in BOOLEAN :
        /\ out' = [out EXCEPT !.inFlight = @ \ {Request(0, "tags")}, !.up = ok]
        /\ pc' = IF IsStrict /\ ~ok THEN "end" ELSE "loop"
  /\ UNCHANGED <<env, arg, EXCLUSION_PATTERNS, stdoutDiag, stdoutBlank,
                 stagedFiles, i, processed_paths, ollama_available, hasIssues,
                 allIssues, exitCode, crashed, log, verdicts>>

\* checkWithOllama: fetch of /api/tags is started, in a race with the timer
JsProbe ==
  /\ pc = "loop"
  /\ variant = "js"
  /\ out.idx <= arg.files
  /\ out' = [out EXCEPT !.inFlight = @ \cup {Request(out.idx, "tags")}]
  /\ pc' = "probing"
  /\ UNCHANGED <<env, arg, EXCLUSION_PATTERNS, stdoutDiag, stdoutBlank,
                 stagedFiles, i, processed_paths, ollama_available, hasIssues,
                 allIssues, exitCode, crashed, log, verdicts>>

\* the probe is answered before the timer fires: fetch of /api/generate is
\* started
JsProbeAnswered ==
  /\ pc = "probing"
  /\ variant = "js"
  /\ out' = [out EXCEPT !.inFlight = (@ \ {Request(out.idx, "tags")})
                                     \cup {Request(out.idx, "generate")}]
  /\ pc' = "generating"
  /\ UNCHANGED <<env, arg, EXCLUSION_PATTERNS, stdoutDiag, stdoutBlank,
                 stagedFiles, i, processed_paths, ollama_available, hasIssues,
                 allIssues, exitCode, crashed, log, verdicts>>

\* the probe is refused: the catch branch gives the result of the regex
\* fallback
JsProbeRefused ==
  /\ pc = "probing"
  /\ variant = "js"
  /\ out' = [out EXCEPT !.inFlight = @ \ {Request(out.idx, "tags")},
                        !.obtained = @ + 1,
                        !.idx = @ + 1]
  /\ pc' = "loop"
  /\ UNCHANGED <<env, arg, EXCLUSION_PATTERNS, stdoutDiag, stdoutBlank,
                 stagedFiles, i, processed_paths, ollama_available, hasIssues,
                 allIssues, exitCode, crashed, log, verdicts>>

\* the timer fires first: Promise.race rejects, the catch branch gives the
\* result of the regex fallback; nothing aborts the fetch of the probe
JsProbeTimeout ==
  /\ pc = "probing"
  /\ variant = "js"
  /\ out' = [out EXCEPT !.obtained = @ + 1, !.idx = @ + 1]
  /\ pc' = "loop"
  /\ UNCHANGED <<env, arg, EXCLUSION_PATTERNS, stdoutDiag, stdoutBlank,
                 stagedFiles, i, processed_paths, ollama_available, hasIssues,
                 allIssues, exitCode, crashed, log, verdicts>>

\* a probe that lost its race is answered at last
LateAnswer ==
  /\ pc \in {"loop", "probing", "generating"}
  /\ \E r \in out.inFlight :
        /\ r.kind = "tags"
        /\ r.file < out.idx
        /\ r.file > 0
        /\ out' = [out EXCEPT !.inFlight = @ \ {r}, !.late = @ + 1]
  /\ UNCHANGED <<env, arg, pc, EXCLUSION_PATTERNS, stdoutDiag, stdoutBlank,
                 stagedFiles, i, processed_paths, ollama_available, hasIssues,
                 allIssues, exitCode, crashed, log, verdicts>>

\* check_with_ollama of a shell script: curl of /api/generate is started
Generate ==
  /\ pc = "loop"
  /\ variant # "js"
  /\ IsStrict \/ out.up
  /\ out.idx <= arg.files
  /\ out' = [out EXCEPT !.inFlight = @ \cup {Request(out.idx, "generate")}]
  /\ pc' = "generating"
  /\ UNCHANGED <<env, arg, EXCLUSION_PATTERNS, stdoutDiag, stdoutBlank,
                 stagedFiles, i, processed_paths, ollama_available, hasIssues,
                 allIssues, exitCode, crashed, log, verdicts>>

\* the generation call ends, with a response or an error: the loop has the
\* result of the file and goes on
GenerateDone ==
  /\ pc = "generating"
  /\ out' = [out EXCEPT !.inFlight = @ \ {Request(out.idx, "generate")},
                        !.obtained = @ + 1,
                        !.idx = @ + 1]
  /\ pc' = "loop"
  /\ UNCHANGED <<env, arg, EXCLUSION_PATTERNS, stdoutDiag, stdoutBlank,
                 stagedFiles, i, processed_paths, ollama_available, hasIssues,
                 allIssues, exitCode, crashed, log, verdicts>>

\* check_with_regex of the lenient script, when the probe failed
Regex ==
  /\ pc = "loop"
  /\ variant = "lenient"
  /\ ~out.up
  /\ out.idx <= arg.files
  /\ out' = [out EXCEPT !.obtained = @ + 1, !.idx = @ + 1]
  /\ UNCHANGED <<env, arg, pc, EXCLUSION_PATTERNS, stdoutDiag, stdoutBlank,
                 stagedFiles, i, processed_paths, ollama_available, hasIssues,
                 allIssues, exitCode, crashed, log, verdicts>>

\* the loop is over and the process exits
Finish ==
  /\ pc = "loop"
  /\ out.idx > arg.files
  /\ out' = [out EXCEPT !.inFlight = {}]
  /\ pc' = "end"
  /\ UNCHANGED <<env, arg, EXCLUSION_PATTERNS, stdoutDiag, stdoutBlank,
                 stagedFiles, i, processed_paths, ollama_available, hasIssues,
                 allIssues, exitCode, crashed, log, verdicts>>

NextRequests ==
  \/ Probe
  \/ ProbeDone
  \/ JsProbe
  \/ JsProbeAnswered
  \/ JsProbeRefused
  \/ JsProbeTimeout
  \/ LateAnswer
  \/ Generate
  \/ GenerateDone
  \/ Regex
  \/ Finish

SpecRequests == InitRequests /\ [][NextRequests]_vars

(***************************************************************************)
(* The temporary files of a run                                            *)
(*                                                                         *)
(* out.live is the set of temporary files that exist, named after the      *)
(* shell variable that holds their path; out.created the files the run     *)
(* has created so far; out.idx the file a loop is at; out.exitTrap and     *)
(* out.returnTrap whether the EXIT and the RETURN trap are set; out.code   *)
(* the exit status, -1 while running.  arg.files is the number of staged   *)
(* files that pass the filter and can be read.  Every mktemp call can      *)
(* fail, every validation can go either way.                               *)
(***************************************************************************)
Added(f) == [out EXCEPT !.live = @ \cup {f}, !.created = @ \cup {f}]

\* trap 'rm -f "$TEMP_ISSUES_FILE"' EXIT
ExitTrap(live, set) == IF set THEN live \ {"TEMP_ISSUES_FILE"} ELSE live

\* a function returns and no trap runs
ReturnTrap_NotRun(live, set) == live

\* trap 'rm -f "$temp_json_file"' RETURN
ReturnTrap(live, set) == IF set THEN live \ {"temp_json_file"} ELSE live

\* exit: the EXIT trap runs, the process ends
Exits(code) ==
  /\ out' = [out EXCEPT !.live = ExitTrap(@, out.exitTrap), !.code = code]
  /\ pc' = "exited"

TempFrame ==
  UNCHANGED <<env, arg, EXCLUSION_PATTERNS, stdoutDiag, stdoutBlank,
              stagedFiles, i, processed_paths, ollama_available, hasIssues,
              allIssues, exitCode, crashed, log, verdicts>>

InitTemp ==
  /\ variant \in Variants
  /\ arg \in [files : 0..MaxFiles]
  /\ out = [live |-> {}, created |-> {}, idx |-> 1, exitTrap |-> FALSE,
            returnTrap |-> FALSE, code |-> -1]
  /\ pc = "main"
  /\ Idle

\* main of a strict script up to the probe: without jq or without the
\* inference service the script exits before it creates anything
MainPreflight ==
  /\ pc = "main"
  /\ IsStrict
  /\ \E jq \in BOOLEAN, up \in BOOLEAN :
        IF jq /\ up THEN /\ pc' = "issues"
                         /\ out' = out
                    ELSE Exits(1)
  /\ TempFrame

\* main: TEMP_ISSUES_FILE=$(mktemp), exit 1 when that failed, else the EXIT
\* trap is set
CreateIssuesFile ==
  /\ pc = "issues"
  /\ \E ok \in BOOLEAN :
        IF ok THEN /\ out' = [Added("TEMP_ISSUES_FILE") EXCEPT !.exitTrap = TRUE]
                   /\ pc' = "json"
              ELSE Exits(1)
  /\ TempFrame

\* main: temp_json_output=$(mktemp), unchecked; with an empty path the
\* redirection fails and get_staged_changes does not run
CreateJsonOutput ==
  /\ pc = "json"
  /\ \E ok \in BOOLEAN :
        IF ok THEN /\ out' = Added("temp_json_output")
                   /\ pc' = "gsc"
              ELSE /\ out' = out
                   /\ pc' = "verify"
  /\ TempFrame

\* get_staged_changes up to its loop.  "strict": an empty list returns
\* before mktemp, a failed mktemp returns 1, else the RETURN trap is set.
\* "strict2": json_output=$(mktemp), unchecked; with an empty list the file
\* is printed and removed at once
GscStart ==
  /\ pc = "gsc"
  /\ \E ok \in BOOLEAN :
        IF variant = "strict"
        THEN IF arg.files = 0 \/ ~ok
             THEN /\ out' = out
                  /\ pc' = "read"
             ELSE /\ out' = [Added("temp_json_file") EXCEPT !.returnTrap = TRUE,
                                                            !.idx = 1]
                  /\ pc' = "gsc_loop"
        ELSE IF arg.files = 0
             THEN /\ out' = [out EXCEPT !.created =
                                @ \cup (IF ok THEN {"json_output"} ELSE {})]
                  /\ pc' = "read"
             ELSE /\ out' = [(IF ok THEN Added("json_output") ELSE out)
                               EXCEPT !.idx = 1]
                  /\ pc' = "gsc_loop"
  /\ TempFrame

\* get_staged_changes of "strict", one file: temp_obj_file=$(mktemp), the
\* file is skipped when that failed
GscCreateObject ==
  /\ pc = "gsc_loop"
  /\ variant = "strict"
  /\ out.idx <= arg.files
  /\ \E ok \in BOOLEAN :
        IF ok THEN /\ out' = Added("temp_obj_file")
                   /\ pc' = "gsc_obj"
              ELSE /\ out' = [out EXCEPT !.idx = @ + 1]
                   /\ pc' = "gsc_loop"
  /\ TempFrame

\* the object is invalid (rm, continue), or it is merged or the merge
\* failed (rm after the merge)
GscObjectDone ==
  /\ pc = "gsc_obj"
  /\ out' = [out EXCEPT !.live = @ \ {"temp_obj_file"}, !.idx = @ + 1]
  /\ pc' = "gsc_loop"
  /\ TempFrame

\* get_staged_changes of "strict2", one file: the object is built in a
\* variable and appended to json_output
GscAppend ==
  /\ pc = "gsc_loop"
  /\ variant = "strict2"
  /\ out.idx <= arg.files
  /\ out' = [out EXCEPT !.idx = @ + 1]
  /\ pc' = "gsc_loop"
  /\ TempFrame

\* get_staged_changes returns: "strict" with return 1 or return 0, the
\* RETURN trap runs; "strict2" after rm -f "$json_output"
GscReturn ==
  /\ pc = "gsc_loop"
  /\ out.idx > arg.files
  /\ out' = [out EXCEPT !.live = IF variant = "strict"
                                  THEN ReturnTrap(@, out.returnTrap)
                                  ELSE @ \ {"json_output"}]
  /\ pc' = "read"
  /\ TempFrame

\* main: staged_files_json=$(cat ...); rm -f "$temp_json_output"
ReadJsonOutput ==
  /\ pc = "read"
  /\ out' = [out EXCEPT !.live = @ \ {"temp_json_output"}]
  /\ pc' = "verify"
  /\ TempFrame

\* main: invalid JSON exits 1; something that is no array exits 1 in
\* "strict" and counts as an empty array in "strict2"; an empty array exits
\* 0; else the loop over the files starts
Verify ==
  /\ pc = "verify"
  /\ \E outcome \in {"invalid", "not_array", "empty", "files"} :
        /\ outcome = "files" => arg.files > 0 /\ "temp_json_output" \in out.created
        /\ CASE outcome = "invalid"   -> Exits(1)
             [] outcome = "not_array" -> Exits(IF variant = "strict" THEN 1 ELSE 0)
             [] outcome = "empty"     -> Exits(0)
             [] outcome = "files"     -> /\ out' = [out EXCEPT !.idx = 1]
                                         /\ pc' = "scan"
  /\ TempFrame

\* check_with_ollama: temp_request=$(mktemp), unchecked, the payload is
\* written to it and curl is started
CreateRequest ==
  /\ pc = "scan"
  /\ out.idx <= arg.files
  /\ \E ok \in BOOLEAN :
        out' = IF ok THEN Added("temp_request") ELSE out
  /\ pc' = "curl"
  /\ TempFrame

\* curl ended, with a response or an error: rm -f "$temp_request".  In
\* "strict2" the third extraction method writes the response to
\* temp_response=$(mktemp)
CurlDone ==
  /\ pc = "curl"
  /\ \E method3 \in BOOLEAN :
        IF variant = "strict2" /\ method3
        THEN /\ out' = [Added("temp_response") EXCEPT
                          !.live = @ \ {"temp_request"}]
             /\ pc' = "method3"
        ELSE /\ out' = [out EXCEPT !.live = @ \ {"temp_request"},
                                   !.idx = @ + 1]
             /\ pc' = "scan"
  /\ TempFrame

\* the third method found an object (rm, return 0) or did not (rm)
Method3Done ==
  /\ pc = "method3"
  /\ out' = [out EXCEPT !.live = @ \ {"temp_response"}, !.idx = @ + 1]
  /\ pc' = "scan"
  /\ TempFrame

\* main after the loop: exit 1 with findings or with an unreadable issues
\* list, exit 0 without findings
Summarise ==
  /\ pc = "scan"
  /\ out.idx > arg.files
  /\ \E code \in {0, 1} : Exits(code)
  /\ TempFrame

\* the lenient script and the Node script create no temporary file
NoTempFiles ==
  /\ pc = "main"
  /\ ~IsStrict
  /\ \E code \in {0, 1} : Exits(code)
  /\ TempFrame

NextTemp ==
  \/ MainPreflight
  \/ CreateIssuesFile
  \/ CreateJsonOutput
  \/ GscStart
  \/ GscCreateObject
  \/ GscObjectDone
  \/ GscAppend
  \/ GscReturn
  \/ ReadJsonOutput
  \/ Verify
  \/ CreateRequest
  \/ CurlDone
  \/ Method3Done
  \/ Summarise
  \/ NoTempFiles

SpecTemp == InitTemp /\ [][NextTemp]_vars

(***************************************************************************)
(* Properties                                                              *)
(***************************************************************************)
Done == pc = "done"
Logged(e) == \E n \in 1..Len(log) : log[n].ev = e
LoggedFor(e, path) == \E n \in 1..Len(log) : log[n] = Ev(e, path)
\* the run went through the Reporter/Gate
Reported == Logged("report")
\* the file filter of the running implementation, on the loaded patterns
Filtered(path) ==
  CASE variant = "lenient" -> should_exclude_file_lenient(path, EXCLUSION_PATTERNS)
    [] variant = "js"      -> shouldExcludeFile(path, EXCLUSION_PATTERNS)
    [] OTHER               -> should_exclude_file(path, EXCLUSION_PATTERNS)
\* how often the path was handed to the classifier
TimesClassified(path) ==
  Cardinality({ n \in 1..Len(verdicts) : verdicts[n].path = path })
SomeFlagged == \E n \in 1..Len(verdicts) : verdicts[n].flagged
\* the generation call of a verdict failed: no connection, or a non-success
\* HTTP response
CallFailed(v) == v.o.kind \in {"connfail", "http_json", "http_text"}

\* C1 (as claimed): a run that reaches the Reporter/Gate exits non-zero
\* exactly when the aggregated findings list is non-empty.
C1_Original ==
  (Done /\ Reported) => ((exitCode # 0) <=> (allIssues # <<>>))

\* C1 (amended): a run that reaches the Reporter/Gate exits with status 1
\* exactly when the classifier result of at least one file had
\* hasSensitiveData = true, and with status 0 otherwise; a non-empty
\* aggregate therefore always gives status 1, but so does a flagged result
\* that contributed no finding.
C1_ExitIffFlagged ==
  (Done /\ Reported) =>
     /\ exitCode \in {0, 1}
     /\ (exitCode = 1) <=> SomeFlagged
     /\ (allIssues # <<>>) => (exitCode = 1)

\* C1 witness: a reported run that was blocked with findings in the aggregate
C1_Witness == Done /\ Reported /\ exitCode = 1 /\ allIssues # <<>>

\* C2: in a run that classifies at least one file (jq present) and reaches
\* the Reporter/Gate, every staged file
\* that is readable and not excluded is handed to the classifier exactly
\* once, whatever else is staged.
C2_EachFileClassifiedOnce ==
  (Done /\ Reported /\ jqInstalled /\ verdicts # <<>>) =>
     \A p \in Range(staged) :
        (p \in readable /\ ~Filtered(p)) => TimesClassified(p) = 1

\* C3: a staged path that the file filter excludes is never passed to the
\* classifier: no generation request, no regex run, no verdict and hence no
\* finding for it.
C3_ExcludedNeverClassified ==
  \A p \in Range(staged) :
     (EXCLUSION_PATTERNS = (IF variant = "js" THEN loadExclusionPatterns(excludeFile)
                            ELSE load_exclusion_patterns(excludeFile))
      /\ Filtered(p)) =>
        /\ TimesClassified(p) = 0
        /\ ~LoggedFor("request", p)
        /\ ~LoggedFor("regex", p)
        /\ ~LoggedFor("read", p)

\* C3 witness: a finished run in which an excluded file was staged next to
\* files that were classified
C3_Witness ==
  /\ Done /\ Reported /\ verdicts # <<>>
  /\ \E p \in Range(staged) : p \in readable /\ Filtered(p)

\* C4: when the generation call for a file fails after the service was
\* judged reachable, the classifier result is hasSensitiveData = true with
\* an error finding, and the finished run exits non-zero.
C4_FailedCallFlagged ==
  \A n \in 1..Len(verdicts) :
     CallFailed(verdicts[n]) =>
        /\ verdicts[n].flagged
        /\ verdicts[n].issues # <<>>
        /\ (Done => exitCode # 0)

\* a value of the ScanResult shape
IsScanResult(val) ==
  /\ val.t = "obj"
  /\ Get(val, "hasSensitiveData").t = "bool"
  /\ Get(val, "hasSensitiveData").v => Get(val, "issues").t = "arr"
\* some stretch of the text (the whole text, the inside of a fence, a
\* braced span) is JSON of the ScanResult shape
SomeSpanParses(text) ==
  LET toks == Flatten(text)
  IN \E a, b \in 1..Len(toks) :
        /\ a <= b
        /\ JSONparse(SubSeq(toks, a, b)).ok
        /\ IsScanResult(JSONparse(SubSeq(toks, a, b)).val)
\* no parsing strategy yields a ScanResult from the text
Unparseable(text) ==
  ~SomeSpanParses(text) /\ ~HsdThen(text, "true") /\ ~HsdThen(text, "false")

\* C5: a response text from which no parsing strategy yields a ScanResult
\* makes the classifier (when it returns to a run that goes on) return hasSensitiveData = true with exactly one
\* synthesized finding; the file is never passed as clean.
C5_UnparseableFlagged ==
  \A n \in 1..Len(verdicts) :
     (~crashed /\ verdicts[n].o.kind = "ok" /\ Unparseable(verdicts[n].o.text))
        => verdicts[n].flagged /\ Len(verdicts[n].issues) = 1

\* C6: in a strict script, a failed liveness probe ends the run with status 1
\* before any staged file is enumerated or read and without any generation
\* request.
C6_ProbeFailureIsFatal ==
  (IsStrict /\ Logged("probe") /\ ~ollamaUp) =>
     /\ Done /\ exitCode = 1
     /\ ~Logged("enumerate") /\ ~Logged("read")
     /\ ~Logged("request") /\ ~Logged("regex")
     /\ verdicts = <<>> /\ stagedFiles = <<>>

\* C6 witness: a strict run with staged, readable files whose probe failed
C6_Witness ==
  IsStrict /\ Logged("probe") /\ ~ollamaUp /\ readable # {} /\ Done

\* a regex detector matches a line of the staged content of the path
DetectorHits(path) ==
  \E n \in 1..Len(ContentOf(path)) : \E d \in Range(Detectors) :
     RegexTest(d, ContentOf(path)[n])
\* the staged files the scan is about: readable and not excluded
Scannable == { p \in Range(staged) : p \in readable /\ ~Filtered(p) }

\* C7: in the lenient implementations, with the inference endpoint
\* unreachable (and jq present), every non-excluded staged file is checked by
\* the regex detectors, and the exit status is 1 if a detector matches in
\* one of them and 0 otherwise.
C7_RegexFallbackDecides ==
  (variant \in {"lenient", "js"} /\ ~ollamaUp /\ jqInstalled /\ Done) =>
     /\ \A p \in Scannable : LoggedFor("regex", p)
     /\ exitCode \in {0, 1}
     /\ (exitCode = 1) <=> (\E p \in Scannable : DetectorHits(p))

\* C8: with jq present and the service reachable, a run with nothing to scan
\* (nothing staged, or every staged file excluded) exits with status 0 and
\* never invokes the classifier.
C8_NothingToScanExitsZero ==
  (Done /\ jqInstalled /\ ollamaUp /\ \A p \in Range(staged) : Filtered(p)) =>
     /\ exitCode = 0
     /\ verdicts = <<>>
     /\ ~Logged("request") /\ ~Logged("regex")

\* C9: no per-file failure aborts the run: a run that has started to
\* classify ends through the Reporter/Gate with status 0 or 1, after all
\* files were processed, never through an uncaught error.
C9_NoPerFileAbort ==
  /\ ~crashed
  /\ (Done /\ verdicts # <<>>) =>
        (Reported /\ exitCode \in {0, 1} /\ i > Len(stagedFiles))

\* C10: when jq is absent the run exits non-zero before it loads exclusions,
\* probes the service, reads a staged file or classifies anything.
C10_MissingToolIsFatal ==
  ~jqInstalled =>
     /\ log = <<>> /\ verdicts = <<>>
     /\ Done => exitCode # 0

\* C11: when the exclusion file yields no pattern, the loaded pattern list
\* is empty and the run is unfiltered: the file filter returns false for
\* every staged path, and in a run that reports (jq present) every readable
\* staged file is classified.
C11_NoPatternsUnfiltered ==
  (Logged("load") /\ load_exclusion_patterns(excludeFile) = <<>>) =>
     /\ EXCLUSION_PATTERNS = <<>>
     /\ \A p \in Range(staged) : ~Filtered(p)
     /\ (Done /\ Reported /\ jqInstalled) =>
           \A p \in Range(staged) : p \in readable => TimesClassified(p) >= 1

\* the upper-case form of a character
UpperChar(c) ==
  CASE c = "m" -> "M"
    [] c = "d" -> "D"
    [] c = "n" -> "N"
    [] c = "b" -> "B"
    [] OTHER -> c
\* the texts that differ from s in letter case only
RECURSIVE CaseVariants(_)
CaseVariants(s) ==
  IF s = <<>> THEN {<<>>}
  ELSE { <<c>> \o t : c \in {LowerChar(Head(s)), UpperChar(Head(s))},
                      t \in CaseVariants(Tail(s)) }
\* the pattern lists that differ from list in letter case only
RECURSIVE ListCaseVariants(_)
ListCaseVariants(list) ==
  IF list = <<>> THEN {<<>>}
  ELSE { <<p>> \o t : p \in CaseVariants(Head(list)),
                      t \in ListCaseVariants(Tail(list)) }

\* C12: the file filter is case-insensitive: changing the letter case of the
\* path, or of any pattern of the list, never changes whether the path is
\* excluded.
C12_CaseInsensitive ==
  (pc = "filtered") =>
     /\ \A s2 \in CaseVariants(arg.path) :
           shouldExclude(variant, s2, arg.patterns) = out.excluded
     /\ \A l2 \in ListCaseVariants(arg.patterns) :
           shouldExclude(variant, arg.path, l2) = out.excluded

\* the glob p read literally, "*" standing for any run of characters,
\* matches the text s from position i on
RECURSIVE GlobAt(_, _, _, _)
GlobAt(p, k, s, n) ==
  IF k > Len(p) THEN TRUE
  ELSE IF p[k] = "*"
       THEN \E j \in n..(Len(s) + 1) : GlobAt(p, k + 1, s, j)
       ELSE n <= Len(s) /\ s[n] = p[k] /\ GlobAt(p, k + 1, s, n + 1)
\* s contains a substring with the literal structure of p
GlobContained(p, s) == \E n \in 1..(Len(s) + 1) : GlobAt(p, 1, s, n)

\* C13: the filter excludes a path whenever the lowercased path contains a
\* substring with the literal structure of the single pattern, "*" standing
\* for any run of characters and every other character for itself.
C13_LiteralGlobExcluded ==
  (pc = "filtered" /\ Len(arg.patterns) = 1
   /\ GlobContained(arg.patterns[1], toLowerCase(arg.path))) => out.excluded

\* C14: every result returned by the classifier, whether parsed from the
\* response of the model or produced by the regex detectors, that has
\* hasSensitiveData = false has an empty or absent issues list.
C14_CleanResultHasNoIssues ==
  \A n \in 1..Len(verdicts) :
     Get(verdicts[n].result, "hasSensitiveData") = JBool(FALSE) =>
        \/ ~Has(verdicts[n].result, "issues")
        \/ Get(verdicts[n].result, "issues") = JArr(<<>>)

\* C15: every finding of the aggregate carries a filePath that is the path
\* of the staged file whose scan produced it, also when the issue object of
\* the model has a filePath member of its own.
C15_FindingsCarryTheirPath ==
  \A n \in 1..Len(verdicts) : \A k \in 1..Len(verdicts[n].issues) :
     /\ Get(verdicts[n].issues[k], "filePath").t = "str"
     /\ Get(verdicts[n].issues[k], "filePath").v = verdicts[n].path

\* the issues the aggregate should hold after the classifier calls vs: for
\* each call, in order, whose result has hasSensitiveData = true, the
\* elements of its issues list, in order
IssuesOf(result) ==
  IF Get(result, "issues").t = "arr" THEN Get(result, "issues").v ELSE <<>>
RECURSIVE ExpectedFindings(_)
ExpectedFindings(vs) ==
  IF vs = <<>> THEN <<>>
  ELSE (IF IsTrue(Get(Head(vs).result, "hasSensitiveData"))
        THEN IssuesOf(Head(vs).result) ELSE <<>>)
       \o ExpectedFindings(Tail(vs))
\* the finding f is the issue, stamped: it has every member of the issue
\* other than filePath, with the same value
SameFinding(f, issue) ==
  /\ f.t = "obj" /\ issue.t = "obj"
  /\ \A key \in (DOMAIN issue.v) \ {"filePath"} :
        key \in DOMAIN f.v /\ f.v[key] = issue.v[key]

C17_EnumeratorHasNoDuplicates ==
  Logged("enumerate") =>
     /\ \A m, n \in 1..Len(stagedFiles) :
           stagedFiles[m].filePath = stagedFiles[n].filePath => m = n
     /\ Len(stagedFiles) <= Cardinality(Range(staged))

\* C18: the content embedded in a generation request is the first 5000
\* characters of the staged content, hence at most 5000 characters long, and
\* the truncation warning is printed exactly when the staged content is
\* longer than 5000 characters.
C18_RequestContentCapped ==
  \A n \in 1..Len(verdicts) :
     verdicts[n].sent # -1 =>
        /\ verdicts[n].sent <= 5000
        /\ verdicts[n].sent =
              (IF LengthOf(verdicts[n].path) > 5000 THEN 5000
               ELSE LengthOf(verdicts[n].path))
        /\ verdicts[n].warned <=> (LengthOf(verdicts[n].path) > 5000)

\* the regex fallback is the classifier of the path in this run: the lenient
\* script found the endpoint unreachable, or the generation call of the Node
\* script for the path ended in its catch branch
FallbackActiveFor(path) ==
  \/ variant = "lenient" /\ ~ollamaUp
  \/ variant = "js" /\ LoggedFor("regex", path)
\* the positions of the aggregated findings that carry the path
FindingsFor(path) ==
  { k \in 1..Len(allIssues) : /\ Get(allIssues[k], "filePath").t = "str"
                              /\ Get(allIssues[k], "filePath").v = path }

\* C19: with the regex fallback active, a non-excluded staged file whose
\* content is a single line holding an AKIA access key id (and no assignment
\* to api_key, password or secret) yields exactly one finding, of type
\* "AWS Access Key", and the run exits with status 1.
C19_AwsKeyLineOneFinding ==
  (Done /\ P_b \in Scannable /\ FallbackActiveFor(P_b)) =>
     /\ exitCode = 1
     /\ Cardinality(FindingsFor(P_b)) = 1
     /\ \A k \in FindingsFor(P_b) :
           Get(allIssues[k], "type") = JStr("AWS Access Key")

\* C20: for every valid ScanResult JSON object J (one or several issues, on
\* one line or spanning several), the response that holds J inside a code
\* fence with prose around it is parsed to the same result as the response
\* that consists of J alone, and that result is the value of J.
C20_FencedParsesLikeBare ==
  (pc = "parsed") =>
     /\ ~out.bare.thrown
     /\ out.bare.val = JSONparse(Flatten(arg.J)).val
     /\ out.fenced.thrown = out.bare.thrown
     /\ out.fenced.val = out.bare.val

\* the lines of a hook file that invoke the security check
RECURSIVE Invocations(_)
Invocations(lines) ==
  IF lines = <<>> THEN 0
  ELSE (IF Head(lines) \in {"npx_run", "npx_run_bare", "call_hook",
                            "check_security_sh"} THEN 1 ELSE 0)
       + Invocations(Tail(lines))
\* the commands of the hook the repository had, in their order
RECURSIVE UserCommands(_)
UserCommands(lines) ==
  IF lines = <<>> THEN <<>>
  ELSE (IF Head(lines) \in {"user", "user2", "exit0"} THEN <<Head(lines)>>
        ELSE <<>>) \o UserCommands(Tail(lines))
\* an installer into .git/hooks has run on a git repository at least once,
\* without a file-system error
InstalledInto ==
  /\ pc = "install"
  /\ out.installs >= 1
  /\ arg.isGit /\ arg.hooksWritable

\* C21: installing into a repository that already has a pre-commit hook
\* keeps the commands of that hook in place and adds the security check to
\* them, and after any number of installations the pre-commit hook holds
\* exactly one invocation of the security check.
C21_InstallKeepsHookAddsOnce ==
  InstalledInto =>
     /\ out.preCommit.exists
     /\ Invocations(out.preCommit.lines) = 1
     /\ arg.initial.exists =>
           UserCommands(out.preCommit.lines) = UserCommands(arg.initial.lines)

\* C30: installHook returns true only if, when it returns, a pre-commit
\* hook that invokes the security check exists in the target repository, in
\* .git/hooks/pre-commit or in .husky/pre-commit; when every installation
\* method failed it does not return true.
C30_SuccessMeansHookExists ==
  (pc = "install" /\ arg.installer = "installHook" /\ out.installs >= 1
   /\ out.returned = "true") =>
     \/ out.preCommit.exists /\ Invocations(out.preCommit.lines) >= 1
     \/ out.husky.exists /\ Invocations(out.husky.lines) >= 1

\* C22: diagnostics are never mixed into the machine-parseable output: for
\* every set of staged files and exclusion patterns, the standard output of
\* get_staged_changes is exactly one JSON array of {filePath, content}
\* objects; no skip, warning or error message is part of it.
C22_EnumeratorStdoutIsOneArray ==
  (variant # "js" /\ Logged("enumerate")) =>
     /\ ~stdoutDiag
     /\ ~stdoutBlank
     /\ \A n \in 1..Len(stagedFiles) :
           DOMAIN stagedFiles[n] = {"filePath", "content"}

\* a JSON parser reading the characters after the opening quote of a string:
\* the string they spell when all of them belong to the string (no line
\* end, no quote that ends the string early, and after a backslash only a
\* backslash, a quote or the letter n)
RECURSIVE DecodeLiteral(_, _)
DecodeLiteral(chars, acc) ==
  IF chars = <<>> THEN [ok |-> TRUE, text |-> acc]
  ELSE IF Head(chars) \in {"nl", "q"} THEN [ok |-> FALSE, text |-> acc]
  ELSE IF Head(chars) = "b"
  THEN IF Len(chars) >= 2 /\ chars[2] \in {"b", "q", "n"}
       THEN DecodeLiteral(Tail(Tail(chars)),
                          Append(acc, IF chars[2] = "n" THEN "nl" ELSE chars[2]))
       ELSE [ok |-> FALSE, text |-> acc]
  ELSE DecodeLiteral(Tail(chars), Append(acc, Head(chars)))

\* C23: for every file content and file path, double quotes, backslashes
\* and line ends included, the body of the generation request is well-formed
\* JSON whose prompt string embeds the path and the content.
C23_RequestBodyWellFormed ==
  (pc = "built") =>
     /\ DecodeLiteral(out.literal, <<>>).ok
     /\ includes(DecodeLiteral(out.literal, <<>>).text, arg.path)
     /\ includes(DecodeLiteral(out.literal, <<>>).text, arg.content)

\* none of the parsing strategies that come before the heuristic scan in
\* strict implementation v yields text that jq accepts
EarlierStrategiesFail(v, r) ==
  IF v = "strict"
  THEN FirstJson(<< DirectJson(r), extracted_json(FenceSameLine(r), r) >>,
                 <<>>) = <<>>
  ELSE FirstJson(<< DirectJson(r),
                    extracted_json(Flatten(SedFence(r, FALSE)), r),
                    BraceBlock(r) >>, <<>>) = <<>>
\* a finding whose line, type and suggestion are strings
IsFinding(val) ==
  /\ val.t = "obj"
  /\ \A k \in {"line", "type", "suggestion"} : Get(val, k).t = "str"
\* the heuristic scan is what decides the verdict
HeuristicDecides(v) ==
  /\ IsStrict
  /\ v.o.kind = "ok"
  /\ EarlierStrategiesFail(variant, v.o.text)
  /\ HsdThen(v.o.text, "true")

\* C24: in the strict scripts, when no earlier parsing strategy yields valid
\* JSON and the response text holds hasSensitiveData followed by true, the
\* result of the classifier is a well-formed ScanResult with
\* hasSensitiveData = true and exactly one finding with a line, a type and a
\* suggestion; the file is flagged and the run exits non-zero.
C24_HeuristicSynthesizesOneFinding ==
  \A n \in 1..Len(verdicts) :
     HeuristicDecides(verdicts[n]) =>
        /\ Get(verdicts[n].result, "hasSensitiveData") = JBool(TRUE)
        /\ Get(verdicts[n].result, "issues").t = "arr"
        /\ Len(Get(verdicts[n].result, "issues").v) = 1
        /\ IsFinding(Get(verdicts[n].result, "issues").v[1])
        /\ verdicts[n].flagged
        /\ Done => exitCode # 0

\* the (line, detector) pairs of a content in which the detector matches
\* the line
MatchingPairs(content) ==
  { pr \in (1..Len(content)) \X Range(Detectors) :
       RegexTest(pr[2], content[pr[1]]) }

\* C25: under the regex fallback, the findings of a non-excluded file are
\* one per (line, detector) pair that matches in its content, each with the
\* type of a detector and the fixed suggestion text.
C25_OneFindingPerMatch ==
  \A n \in 1..Len(verdicts) :
     (verdicts[n].via = "regex" /\ ~Filtered(verdicts[n].path)) =>
        /\ Len(verdicts[n].issues) =
              Cardinality(MatchingPairs(ContentOf(verdicts[n].path)))
        /\ \A k \in 1..Len(verdicts[n].issues) :
              /\ Get(verdicts[n].issues[k], "suggestion") = JStr(FixedSuggestion)
              /\ \E d \in Range(Detectors) :
                    Get(verdicts[n].issues[k], "type") = JStr(TypeName(d))

\* the first existing file in the order repository root, tool directory,
\* bundled sample ("none" and no lines when none exists)
FirstExisting ==
  IF arg.root.exists THEN [from |-> "root", lines |-> arg.root.lines]
  ELSE IF arg.tool.exists THEN [from |-> "tool", lines |-> arg.tool.lines]
  ELSE IF arg.sample.exists THEN [from |-> "sample", lines |-> arg.sample.lines]
  ELSE [from |-> "none", lines |-> <<>>]

\* C26: the loaded pattern list is exactly the lines that are non-empty and
\* do not start with "#", in file order, of the first existing file in the
\* order repository root, tool directory, bundled sample, and no other file
\* is read.
C26_PatternsOfFirstExistingFile ==
  (pc = "loaded") =>
     /\ out.from = FirstExisting.from
     /\ out.patterns =
           SelectSeq(FirstExisting.lines,
                     LAMBDA line : line # <<>> /\ Head(line) # "#")

\* the run is one of the request timeline
OnTimeline == pc \in {"start", "probing", "loop", "generating", "end"}

\* C27: files are classified strictly one at a time: at no point are two
\* requests to the inference service in flight, and the request for a file
\* is sent only after the result of the previous file has been obtained.
C27_OneRequestInFlight ==
  OnTimeline =>
     /\ Cardinality(out.inFlight) <= 1
     /\ \A r \in out.inFlight : r.file >= 1 => out.obtained >= r.file - 1

\* a run of the temporary-file timeline has ended
TempRunExited == pc = "exited" /\ out.code # -1

\* C28: every temporary file a run created (request payload, staged-files
\* JSON, per-file JSON object, issues list, response scratch file) is
\* removed when the process has exited, whatever the exit path and status.
C28_TempFilesRemovedAtExit ==
  TempRunExited => out.live = {}

\* a strict run that created the issues list, both staged-files files, a
\* per-file object and a request payload has exited with status 1
C28_Witness ==
  /\ TempRunExited
  /\ out.code = 1
  /\ out.live = {}
  /\ {"TEMP_ISSUES_FILE", "temp_json_output", "temp_json_file",
      "temp_obj_file", "temp_request"} \subseteq out.created

\* a run of "strict2" that used the response scratch file has exited
C28_WitnessScratch ==
  /\ TempRunExited
  /\ out.live = {}
  /\ {"json_output", "temp_response"} \subseteq out.created

\* how many generation requests the run has sent for the path
RequestsFor(path) ==
  Cardinality({ n \in 1..Len(verdicts) :
                   verdicts[n].path = path /\ verdicts[n].sent # -1 })

\* C29: control flows forward without retry: in one run at most one
\* generation request is sent per staged file, and a file that has been
\* classified, by the model or by the regex branch, is not classified again.
C29_NoRetryNoReclassification ==
  \A n \in 1..Len(verdicts) :
     /\ RequestsFor(verdicts[n].path) <= 1
     /\ TimesClassified(verdicts[n].path) = 1

====
